---- MODULE Spec2Model ----
(***************************************************************************)
(* Signal classification and event-correlation engine of the bruxism       *)
(* dashboard (src/lib/reportLogic.ts): detectClenches, median,             *)
(* classifyEvents, computeReport and computeLiveStats.                     *)
(*                                                                         *)
(* Number representation.  Timestamps are integer milliseconds, emg is a   *)
(* raw integer ADC count and hr an integer bpm.  Quantities the code       *)
(* derives by division are kept exact:                                     *)
(*   - an activation or intensity percentage is a rational                 *)
(*     [num |-> n, den |-> d] with d > 0 (value n/d);                      *)
(*   - temperatures are integer hundredths of a degree, so temp = 3650 is  *)
(*     36.5 degrees C; avgTemp and tempDrift of the outputs are in         *)
(*     hundredths, avgHR and hrVariability in tenths of a bpm;             *)
(*   - a value that can be NaN in JavaScript (everything computed from a   *)
(*     sample without a temp property) is [nan |-> BOOLEAN, v |-> Int].    *)
(* Math.round is round-half-up on the exact value, except in               *)
(* stressLikelihood, whose quotient and product are carried as IEEE-754    *)
(* doubles (DoubleDiv, DoubleTimes100, MathRound) because the rounding of  *)
(* the quotient decides the result at exact halves.                        *)
(***************************************************************************)
EXTENDS Integers, Sequences, FiniteSets, TLC

\* ---- ADC thresholds and detection constants (reportLogic.ts 15-28) ----
EMG_RELAXED_ADC == 165
EMG_TALKING_ADC == 250
EMG_MAX_ADC == 1024
EMG_THRESHOLD == EMG_TALKING_ADC
MIN_CLENCH_MS == 400
PRECEDE_WINDOW_MS == 15000
PRECEDE_GAP_MS == 500
ACTIVATION_PRECEDE == 5
AROUSAL_DETECT_PCT == 12
AROUSAL_MIN_MS == 2000
AROUSAL_FOLLOW_MS == 15000
\* the literal look-back tolerance of the arousal-only filter (line 182)
AROUSAL_LOOKBACK_MS == 5000

\* ---- arithmetic helpers ----
Max(a, b) == IF a >= b THEN a ELSE b
Min(a, b) == IF a <= b THEN a ELSE b
Abs(a) == IF a >= 0 THEN a ELSE -a

\* Math.round(n / d) for n >= 0, d > 0: the nearest integer, halves rounded up.
RoundDiv(n, d) == (2 * n + d) \div (2 * d)

Rat(n, d) == [num |-> n, den |-> d]
RatGE(a, k) == a.num >= k * a.den
RatGT(a, k) == a.num > k * a.den
RatLess(a, b) == a.num * b.den < b.num * a.den
\* Math.max(a, b) on two rationals
RatMax(a, b) == IF RatLess(a, b) THEN b ELSE a

RECURSIVE RatMaxOf(_)
\* Math.max(...xs) for a non-empty list of rationals
RatMaxOf(xs) ==
    IF Len(xs) = 1 THEN xs[1] ELSE RatMax(xs[1], RatMaxOf(Tail(xs)))

RECURSIVE SumSeq(_)
SumSeq(xs) == IF xs = <<>> THEN 0 ELSE xs[1] + SumSeq(Tail(xs))

RECURSIVE MinSeq(_)
\* Math.min(...xs) for a non-empty list of integers
MinSeq(xs) == IF Len(xs) = 1 THEN xs[1] ELSE Min(xs[1], MinSeq(Tail(xs)))

RECURSIVE MaxSeq(_)
\* Math.max(...xs) for a non-empty list of integers
MaxSeq(xs) == IF Len(xs) = 1 THEN xs[1] ELSE Max(xs[1], MaxSeq(Tail(xs)))

\* ---- signal transforms (reportLogic.ts 36-69) ----
\* Math.min(100, (adc / EMG_MAX_ADC) * 100), as a rational over EMG_MAX_ADC
\* emgToIntensity without the Math.min(100, ...) cap.
emgToIntensity_NoCap(adc) ==
    IF adc <= 0 THEN Rat(0, EMG_MAX_ADC)
    ELSE Rat(adc * 100, EMG_MAX_ADC)

emgToIntensity(adc) ==
    IF adc <= 0 THEN Rat(0, EMG_MAX_ADC)
    ELSE Rat(Min(100 * EMG_MAX_ADC, adc * 100), EMG_MAX_ADC)

\* emgToCategory with a value at a threshold put in the lower band.
emgToCategory_LowerBand(adc) ==
    IF adc <= EMG_RELAXED_ADC THEN "relaxed"
    ELSE IF adc <= EMG_TALKING_ADC THEN "talking"
    ELSE "clenching"

emgToCategory(adc) ==
    IF adc < EMG_RELAXED_ADC THEN "relaxed"
    ELSE IF adc < EMG_TALKING_ADC THEN "talking"
    ELSE "clenching"

\* emgToLevel (reportLogic.ts 56-60).
emgToLevel(adc) ==
    IF adc < EMG_RELAXED_ADC THEN 1
    ELSE IF adc < EMG_TALKING_ADC THEN 2
    ELSE 3

\* hrToActivation without the * 100: a fraction in place of a percentage.
hrToActivation_Fraction(hr, baseline) ==
    IF baseline <= 0 THEN Rat(0, 1)
    ELSE Rat(Max(0, hr - baseline), baseline)

\* hrToActivation without the baseline <= 0 guard: a division by zero.
hrToActivation_NoGuard(hr, baseline) ==
    Rat(Max(0, (hr - baseline) * 100), baseline)

\* hrToActivation without the Math.max(0, ...) floor.
hrToActivation_NoFloor(hr, baseline) ==
    IF baseline <= 0 THEN Rat(0, 1)
    ELSE Rat((hr - baseline) * 100, baseline)

hrToActivation(hr, baseline) ==
    IF baseline <= 0 THEN Rat(0, 1)
    ELSE Rat(Max(0, (hr - baseline) * 100), baseline)

\* ---- detectClenches (reportLogic.ts 79-97) ----
\* DetectStep with the gate written p.t - startMs > MIN_CLENCH_MS.
DetectStep_StrictGate(st, p) ==
    IF p.emg >= EMG_THRESHOLD
    THEN IF ~st.active
         THEN [st EXCEPT !.active = TRUE, !.startMs = p.t, !.peak = p.emg]
         ELSE [st EXCEPT !.peak = Max(st.peak, p.emg)]
    ELSE IF st.active
         THEN [events |-> IF p.t - st.startMs > MIN_CLENCH_MS
                          THEN Append(st.events,
                                      [startMs |-> st.startMs, endMs |-> p.t,
                                       peakEMG |-> st.peak])
                          ELSE st.events,
               active |-> FALSE, startMs |-> st.startMs, peak |-> 0]
         ELSE st

\* DetectStep with events.unshift in place of events.push.
DetectStep_Unshift(st, p) ==
    IF p.emg >= EMG_THRESHOLD
    THEN IF ~st.active
         THEN [st EXCEPT !.active = TRUE, !.startMs = p.t, !.peak = p.emg]
         ELSE [st EXCEPT !.peak = Max(st.peak, p.emg)]
    ELSE IF st.active
         THEN [events |-> IF p.t - st.startMs >= MIN_CLENCH_MS
                          THEN << [startMs |-> st.startMs, endMs |-> p.t,
                                   peakEMG |-> st.peak] >> \o st.events
                          ELSE st.events,
               active |-> FALSE, startMs |-> st.startMs, peak |-> 0]
         ELSE st

\* One iteration of the for loop: st holds events, active, startMs, peak.
\* DetectStep with the relaxed boundary (165) as the threshold.
DetectStep_RelaxedThreshold(st, p) ==
    IF p.emg >= EMG_RELAXED_ADC
    THEN IF ~st.active
         THEN [st EXCEPT !.active = TRUE, !.startMs = p.t, !.peak = p.emg]
         ELSE [st EXCEPT !.peak = Max(st.peak, p.emg)]
    ELSE IF st.active
         THEN [events |-> IF p.t - st.startMs >= MIN_CLENCH_MS
                          THEN Append(st.events,
                                      [startMs |-> st.startMs, endMs |-> p.t,
                                       peakEMG |-> st.peak])
                          ELSE st.events,
               active |-> FALSE, startMs |-> st.startMs, peak |-> 0]
         ELSE st

\* DetectStep that never resets the peak: a run opens with the running
\* maximum of all earlier samples above the threshold.
DetectStep_PeakLeak(st, p) ==
    IF p.emg >= EMG_THRESHOLD
    THEN IF ~st.active
         THEN [st EXCEPT !.active = TRUE, !.startMs = p.t,
                         !.peak = Max(st.peak, p.emg)]
         ELSE [st EXCEPT !.peak = Max(st.peak, p.emg)]
    ELSE IF st.active
         THEN [events |-> IF p.t - st.startMs >= MIN_CLENCH_MS
                          THEN Append(st.events,
                                      [startMs |-> st.startMs, endMs |-> p.t,
                                       peakEMG |-> st.peak])
                          ELSE st.events,
               active |-> FALSE, startMs |-> st.startMs, peak |-> st.peak]
         ELSE st

\* DetectStep that resets the run only when it emits: a dip shorter than the
\* minimum duration does not close the run.
DetectStep_KeepOpen(st, p) ==
    IF p.emg >= EMG_THRESHOLD
    THEN IF ~st.active
         THEN [st EXCEPT !.active = TRUE, !.startMs = p.t, !.peak = p.emg]
         ELSE [st EXCEPT !.peak = Max(st.peak, p.emg)]
    ELSE IF st.active /\ p.t - st.startMs >= MIN_CLENCH_MS
         THEN [events |-> Append(st.events,
                                 [startMs |-> st.startMs, endMs |-> p.t,
                                  peakEMG |-> st.peak]),
               active |-> FALSE, startMs |-> st.startMs, peak |-> 0]
         ELSE st

DetectStep(st, p) ==
    IF p.emg >= EMG_THRESHOLD
    THEN IF ~st.active
         THEN [st EXCEPT !.active = TRUE, !.startMs = p.t, !.peak = p.emg]
         ELSE [st EXCEPT !.peak = Max(st.peak, p.emg)]
    ELSE IF st.active
         THEN [events |-> IF p.t - st.startMs >= MIN_CLENCH_MS
                          THEN Append(st.events,
                                      [startMs |-> st.startMs, endMs |-> p.t,
                                       peakEMG |-> st.peak])
                          ELSE st.events,
               active |-> FALSE, startMs |-> st.startMs, peak |-> 0]
         ELSE st

RECURSIVE DetectLoop(_, _, _)
DetectLoop(d, i, st) ==
    IF i > Len(d) THEN st ELSE DetectLoop(d, i + 1, DetectStep(st, d[i]))

\* DetectClose that reports a run still open in place of the episodes before
\* it.
DetectClose_OnlyOpenRun(d, st) ==
    IF st.active /\ Len(d) > 0
    THEN LET last == d[Len(d)].t
         IN  IF last - st.startMs >= MIN_CLENCH_MS
             THEN << [startMs |-> st.startMs, endMs |-> last, peakEMG |-> st.peak] >>
             ELSE st.events
    ELSE st.events

\* DetectClose without the minimum-duration gate.
DetectClose_NoGate(d, st) ==
    IF st.active /\ Len(d) > 0
    THEN Append(st.events,
                [startMs |-> st.startMs, endMs |-> d[Len(d)].t, peakEMG |-> st.peak])
    ELSE st.events

\* The closing of a run still open at the end of the stream (lines 92-95).
DetectClose(d, st) ==
    IF st.active /\ Len(d) > 0
    THEN LET last == d[Len(d)].t
         IN  IF last - st.startMs >= MIN_CLENCH_MS
             THEN Append(st.events,
                         [startMs |-> st.startMs, endMs |-> last, peakEMG |-> st.peak])
             ELSE st.events
    ELSE st.events

detectClenches(d) ==
    DetectClose(d, DetectLoop(d, 1,
        [events |-> <<>>, active |-> FALSE, startMs |-> 0, peak |-> 0]))

\* ---- median (reportLogic.ts 99-103) ----
RECURSIVE Insert(_, _)
Insert(x, s) ==
    IF s = <<>> THEN <<x>>
    ELSE IF x <= s[1] THEN <<x>> \o s
    ELSE <<s[1]>> \o Insert(x, Tail(s))

RECURSIVE SortAsc(_)
\* [...values].sort((a, b) => a - b)
SortAsc(values) ==
    IF values = <<>> THEN <<>> ELSE Insert(values[1], SortAsc(Tail(values)))

\* median without the sort: the middle element of the array as given.
median_Unsorted(values) ==
    IF Len(values) = 0 THEN 0
    ELSE values[(Len(values) \div 2) + 1]

median(values) ==
    IF Len(values) = 0 THEN 0
    ELSE SortAsc(values)[(Len(values) \div 2) + 1]

stdDevNumerator(values) ==
    \* n * sum(b^2) - (sum b)^2: the population variance times n^2
    Len(values) * SumSeq([i \in 1..Len(values) |-> values[i] * values[i]])
        - SumSeq(values) * SumSeq(values)

\* ---- NaN-able numbers: temp is read from samples that may lack it ----
Num(x) == [nan |-> FALSE, v |-> x]
NaN == [nan |-> TRUE, v |-> 0]
\* p.temp used as a number: undefined becomes NaN
TempOf(p) == IF "temp" \in DOMAIN p THEN Num(p.temp) ELSE NaN
NAdd(a, b) == IF a.nan \/ b.nan THEN NaN ELSE Num(a.v + b.v)
NSub(a, b) == IF a.nan \/ b.nan THEN NaN ELSE Num(a.v - b.v)
NAbs(a) == IF a.nan THEN NaN ELSE Num(Abs(a.v))
\* Math.min(k, a): NaN if a is NaN
NMin(k, a) == IF a.nan THEN NaN ELSE Num(Min(k, a.v))

RECURSIVE TempSum(_, _)
\* data.reduce((a, b) => a + b.temp, 0), from sample i on
TempSum(d, i) ==
    IF i > Len(d) THEN Num(0) ELSE NAdd(TempOf(d[i]), TempSum(d, i + 1))

\* ---- classifyEvents (reportLogic.ts 137-186) ----
\* ClassifyOne that reports the peak intensity in the peakEMG field.
ClassifyOne_PeakField(d, ev, hrBaseline) ==
    LET preData == SelectSeq(d, LAMBDA q :
                       /\ q.t >= ev.startMs - PRECEDE_WINDOW_MS
                       /\ q.t < ev.startMs - PRECEDE_GAP_MS)
        maxAct == IF Len(preData) > 0
                  THEN RatMaxOf([i \in 1..Len(preData) |->
                                    hrToActivation(preData[i].hr, hrBaseline)])
                  ELSE Rat(0, 1)
        peakIntensity == emgToIntensity(ev.peakEMG)
    IN  [startMs |-> ev.startMs, endMs |-> ev.endMs,
         peakEMG |-> peakIntensity.num \div peakIntensity.den,
         type |-> IF RatGT(maxAct, ACTIVATION_PRECEDE)
                  THEN "arousal-linked" ELSE "isolated",
         peakIntensity |-> peakIntensity,
         durationSec |-> Rat(ev.endMs - ev.startMs, 1000),
         severityLabel |-> IF RatGE(peakIntensity, 75) THEN "Severe"
                           ELSE IF RatGE(peakIntensity, 50) THEN "Moderate"
                           ELSE "Mild"]

\* ClassifyOne with the window closed at its upper end: d.t <= startMs - gap.
ClassifyOne_GapInclusive(d, ev, hrBaseline) ==
    LET preData == SelectSeq(d, LAMBDA q :
                       /\ q.t >= ev.startMs - PRECEDE_WINDOW_MS
                       /\ q.t <= ev.startMs - PRECEDE_GAP_MS)
        maxAct == IF Len(preData) > 0
                  THEN RatMaxOf([i \in 1..Len(preData) |->
                                    hrToActivation(preData[i].hr, hrBaseline)])
                  ELSE Rat(0, 1)
        peakIntensity == emgToIntensity(ev.peakEMG)
    IN  [startMs |-> ev.startMs, endMs |-> ev.endMs, peakEMG |-> ev.peakEMG,
         type |-> IF RatGT(maxAct, ACTIVATION_PRECEDE)
                  THEN "arousal-linked" ELSE "isolated",
         peakIntensity |-> peakIntensity,
         durationSec |-> Rat(ev.endMs - ev.startMs, 1000),
         severityLabel |-> IF RatGE(peakIntensity, 75) THEN "Severe"
                           ELSE IF RatGE(peakIntensity, 50) THEN "Moderate"
                           ELSE "Mild"]

\* The map callback of lines 148-160 for one raw clench ev.
\* ClassifyOne that looks at every sample of the buffer, not only at those
\* of the preceding window.
ClassifyOne_NoWindow(d, ev, hrBaseline) ==
    LET preData == d
        maxAct == IF Len(preData) > 0
                  THEN RatMaxOf([i \in 1..Len(preData) |->
                                    hrToActivation(preData[i].hr, hrBaseline)])
                  ELSE Rat(0, 1)
        peakIntensity == emgToIntensity(ev.peakEMG)
    IN  [startMs |-> ev.startMs, endMs |-> ev.endMs, peakEMG |-> ev.peakEMG,
         type |-> IF RatGT(maxAct, ACTIVATION_PRECEDE)
                  THEN "arousal-linked" ELSE "isolated",
         peakIntensity |-> peakIntensity,
         durationSec |-> Rat(ev.endMs - ev.startMs, 1000),
         severityLabel |-> IF RatGE(peakIntensity, 75) THEN "Severe"
                           ELSE IF RatGE(peakIntensity, 50) THEN "Moderate"
                           ELSE "Mild"]

ClassifyOne(d, ev, hrBaseline) ==
    LET preData == SelectSeq(d, LAMBDA q :
                       /\ q.t >= ev.startMs - PRECEDE_WINDOW_MS
                       /\ q.t < ev.startMs - PRECEDE_GAP_MS)
        maxAct == IF Len(preData) > 0
                  THEN RatMaxOf([i \in 1..Len(preData) |->
                                    hrToActivation(preData[i].hr, hrBaseline)])
                  ELSE Rat(0, 1)
        peakIntensity == emgToIntensity(ev.peakEMG)
    IN  [startMs |-> ev.startMs, endMs |-> ev.endMs, peakEMG |-> ev.peakEMG,
         type |-> IF RatGT(maxAct, ACTIVATION_PRECEDE)
                  THEN "arousal-linked" ELSE "isolated",
         peakIntensity |-> peakIntensity,
         durationSec |-> Rat(ev.endMs - ev.startMs, 1000),
         severityLabel |-> IF RatGE(peakIntensity, 75) THEN "Severe"
                           ELSE IF RatGE(peakIntensity, 50) THEN "Moderate"
                           ELSE "Mild"]

\* One iteration of the arousal loop (lines 166-175).
ArousalStep(st, p, hrBaseline) ==
    LET act == hrToActivation(p.hr, hrBaseline)
    IN  IF RatGE(act, AROUSAL_DETECT_PCT)
        THEN IF ~st.active
             THEN [st EXCEPT !.active = TRUE, !.startMs = p.t, !.peak = act]
             ELSE [st EXCEPT !.peak = RatMax(st.peak, act)]
        ELSE IF st.active
             THEN [events |-> IF p.t - st.startMs >= AROUSAL_MIN_MS
                              THEN Append(st.events,
                                          [startMs |-> st.startMs, endMs |-> p.t,
                                           peakActivation |-> st.peak])
                              ELSE st.events,
                   active |-> FALSE, startMs |-> st.startMs, peak |-> Rat(0, 1)]
             ELSE st

RECURSIVE ArousalLoop(_, _, _, _)
ArousalLoop(d, i, st, hrBaseline) ==
    IF i > Len(d) THEN st
    ELSE ArousalLoop(d, i + 1, ArousalStep(st, d[i], hrBaseline), hrBaseline)

\* Lines 176-179.
ArousalClose(d, st) ==
    IF st.active /\ Len(d) > 0
    THEN LET last == d[Len(d)].t
         IN  IF last - st.startMs >= AROUSAL_MIN_MS
             THEN Append(st.events,
                         [startMs |-> st.startMs, endMs |-> last,
                          peakActivation |-> st.peak])
             ELSE st.events
    ELSE st.events

detectArousals(d, hrBaseline) ==
    ArousalClose(d, ArousalLoop(d, 1,
        [events |-> <<>>, active |-> FALSE, startMs |-> 0, peak |-> Rat(0, 1)],
        hrBaseline))

\* ArousalOnlyFilter with the follow window open at its end: startMs < endMs + follow.
ArousalOnlyFilter_StrictFollow(arousalPeaks, rawClenches) ==
    SelectSeq(arousalPeaks, LAMBDA ap :
        ~ \E i \in 1..Len(rawClenches) :
              /\ rawClenches[i].startMs >= ap.startMs - AROUSAL_LOOKBACK_MS
              /\ rawClenches[i].startMs < ap.endMs + AROUSAL_FOLLOW_MS)

\* The filter of lines 181-183.
ArousalOnlyFilter(arousalPeaks, rawClenches) ==
    SelectSeq(arousalPeaks, LAMBDA ap :
        ~ \E i \in 1..Len(rawClenches) :
              /\ rawClenches[i].startMs >= ap.startMs - AROUSAL_LOOKBACK_MS
              /\ rawClenches[i].startMs <= ap.endMs + AROUSAL_FOLLOW_MS)

\* classifyEvents with its locals; clenchEvents and arousalOnlyEvents are
\* what it returns.
classifyEvents(d) ==
    IF Len(d) = 0
    THEN [rawClenches |-> <<>>, hrBaseline |-> 0, arousalPeaks |-> <<>>,
          clenchEvents |-> <<>>, arousalOnlyEvents |-> <<>>]
    ELSE LET rawClenches == detectClenches(d)
             hrBaseline == median([i \in 1..Len(d) |-> d[i].hr])
             arousalPeaks == detectArousals(d, hrBaseline)
         IN  [rawClenches |-> rawClenches,
              hrBaseline |-> hrBaseline,
              arousalPeaks |-> arousalPeaks,
              clenchEvents |-> [i \in 1..Len(rawClenches) |->
                                   ClassifyOne(d, rawClenches[i], hrBaseline)],
              arousalOnlyEvents |-> ArousalOnlyFilter(arousalPeaks, rawClenches)]

\* ---- rounding of expressions that contain stdDev (reportLogic.ts 105-109) ----
\* Math.round(k - Math.min(cap, stdDev(values) * 0.5)) for integers k, cap.
\* Math.round(x) is floor(x + 1/2), so the result is k - m for the least
\* integer m >= 0 with m >= min(cap, stdDev / 2) - 1/2, that is with
\* m >= cap or (2m + 1)^2 * n^2 >= n * sum(b^2) - (sum b)^2.
RoundLessHalfStdDev(k, cap, values) ==
    LET n == Len(values)
        v == stdDevNumerator(values)
        Enough(m) == m >= cap \/ (2 * m + 1) * (2 * m + 1) * n * n >= v
    IN  k - (CHOOSE m \in 0..cap : Enough(m) /\ \A j \in 0..(m - 1) : ~Enough(j))

\* Math.round(stdDev(values) * 10): the k with k - 1/2 <= 10 * stdDev < k + 1/2
RoundStdDevTenths(values) ==
    LET n == Len(values)
        v == 400 * stdDevNumerator(values)
        top == 10 * (MaxSeq(values) - MinSeq(values)) + 1
    IN  CHOOSE k \in 0..top :
            /\ k = 0 \/ (2 * k - 1) * (2 * k - 1) * n * n <= v
            /\ (2 * k + 1) * (2 * k + 1) * n * n > v

\* ---- the double arithmetic of (arousalLinkedCount / length) * 100 ----
\* (reportLogic.ts 214 and 261).  A JavaScript number is an IEEE-754 double:
\* a positive one is [m |-> its 53 significand bits, first bit 1, most
\* significant first, e |-> the binary exponent of the last bit]; zero has
\* m = <<>>.  Every operation rounds its exact result to the nearest double,
\* ties to the even significand.
SignificandBits == 53

RECURSIVE BitsOf(_)
BitsOf(n) == IF n = 0 THEN <<>> ELSE BitsOf(n \div 2) \o <<n % 2>>

RECURSIVE BitsToInt(_)
BitsToInt(b) ==
    IF b = <<>> THEN 0
    ELSE 2 * BitsToInt(SubSeq(b, 1, Len(b) - 1)) + b[Len(b)]

\* b + 1: the last 0 bit becomes 1 and the 1 bits after it become 0.
IncrementBits(b) ==
    IF \A i \in 1..Len(b) : b[i] = 1
    THEN <<1>> \o [i \in 1..Len(b) |-> 0]
    ELSE LET j == CHOOSE k \in 1..Len(b) :
                      b[k] = 0 /\ \A i \in (k + 1)..Len(b) : b[i] = 1
         IN  [i \in 1..Len(b) |-> IF i < j THEN b[i] ELSE IF i = j THEN 1 ELSE 0]

\* Round to nearest, ties to even: m holds the first 53 bits of the exact
\* result, guard is the next bit, sticky says whether any later bit is set.
RoundToDouble(m, e, guard, sticky) ==
    IF guard = 1 /\ (sticky \/ m[SignificandBits] = 1)
    THEN LET up == IncrementBits(m)
         IN  IF Len(up) > SignificandBits
             THEN [m |-> SubSeq(up, 1, SignificandBits), e |-> e + 1]
             ELSE [m |-> up, e |-> e]
    ELSE [m |-> m, e |-> e]

\* The number of doublings that bring a up to c.
RECURSIVE ShiftUpTo(_, _)
ShiftUpTo(a, c) == IF a >= c THEN 0 ELSE 1 + ShiftUpTo(2 * a, c)

\* 2^k modulo c, by repeated squaring.
RECURSIVE Pow2Mod(_, _)
Pow2Mod(k, c) ==
    IF k = 0 THEN 1 % c
    ELSE LET h == Pow2Mod(k \div 2, c)
         IN  (h * h * (IF k % 2 = 1 THEN 2 ELSE 1)) % c

\* n more quotient bits of r / c by long division (r < c), after the bits acc:
\* the remainder after i steps is r * 2^i modulo c, and step i gives the bit 1
\* when twice the remainder before it reaches c.
QuotientBits(r, c, n, acc) ==
    [bits |-> acc \o [i \in 1..n |->
                         IF 2 * ((r * Pow2Mod(i - 1, c)) % c) >= c THEN 1 ELSE 0],
     rem |-> (r * Pow2Mod(n, c)) % c]

\* a / c as a double, for integers 0 <= a <= c, c > 0.
DoubleDiv(a, c) ==
    IF a = 0 THEN [m |-> <<>>, e |-> 0]
    ELSE LET s == ShiftUpTo(a, c)
             first == QuotientBits(a * (2 ^ s) - c, c, SignificandBits - 1, <<1>>)
             next == QuotientBits(first.rem, c, 1, <<>>)
         IN  RoundToDouble(first.bits, 0 - (SignificandBits - 1) - s,
                           next.bits[1], next.rem > 0)

\* The number that the bits b[lo..hi] spell.
RECURSIVE BitsValue(_, _, _)
BitsValue(b, lo, hi) ==
    IF hi < lo THEN 0
    ELSE IF lo = hi THEN b[lo]
    ELSE LET mid == (lo + hi) \div 2
         IN  BitsValue(b, lo, mid) * (2 ^ (hi - mid)) + BitsValue(b, mid + 1, hi)

\* The last w bits of v.
FixedBits(v, w) == [i \in 1..w |-> (v \div (2 ^ (w - i))) % 2]

\* The bits of b * k, for a sequence b of more than 36 bits and a small
\* integer k: b is cut into three limbs, the last two of 18 bits, and each
\* limb times k takes the carry of the limb after it.
TimesBits(b, k) ==
    LET n == Len(b)
        lowV == BitsValue(b, n - 17, n) * k
        midV == BitsValue(b, n - 35, n - 18) * k + lowV \div (2 ^ 18)
        highV == BitsValue(b, 1, n - 36) * k + midV \div (2 ^ 18)
    IN  BitsOf(highV) \o FixedBits(midV, 18) \o FixedBits(lowV, 18)

\* x * 100 as a double.
DoubleTimes100(x) ==
    IF x.m = <<>> THEN x
    ELSE LET p == TimesBits(x.m, 100)
             dropped == Len(p) - SignificandBits
         IN  RoundToDouble(SubSeq(p, 1, SignificandBits), x.e + dropped,
                           p[SignificandBits + 1],
                           \E i \in (SignificandBits + 2)..Len(p) : p[i] = 1)

\* Math.round of a double 0 <= x < 2^31 with a negative exponent (of an
\* (a / c) * 100 with a <= c): floor(x + 0.5), exact, so the result is the
\* integer part plus the first fraction bit.
MathRound(x) ==
    IF x.m = <<>> THEN 0
    ELSE LET intLen == SignificandBits + x.e
         IN  (IF intLen >= 1 THEN BitsToInt(SubSeq(x.m, 1, intLen)) ELSE 0)
             + (IF intLen >= 0 THEN x.m[intLen + 1] ELSE 0)

\* ---- computeReport (reportLogic.ts 190-229); id and createdAt, a fresh
\* uuid and the wall clock, are left out of the record.  tempDrift is in
\* hundredths of a degree, so tempDrift * 100 of the code is its value here ----
\* computeReport with the empty-input defaults of computeLiveStats for the
\* score and the average heart rate.
computeReport_LiveDefaults(sessionId, userId, d, durationSecs) ==
    IF Len(d) = 0
    THEN [sessionId |-> sessionId, userId |-> userId, duration |-> durationSecs,
          clenchCount |-> 0, stressLikelihood |-> 0, sleepQualityScore |-> Num(100),
          avgHR |-> 0, hrVariability |-> 20, peakEMG |-> 0,
          avgTemp |-> Num(3650), tempDrift |-> Num(0)]
    ELSE LET clenchEvents == classifyEvents(d).clenchEvents
             hrValues == [i \in 1..Len(d) |-> d[i].hr]
             avgTemp == TempSum(d, 1)
             tempDrift == NAbs(NSub(TempOf(d[Len(d)]), TempOf(d[1])))
             arousalLinkedCount ==
                 Len(SelectSeq(clenchEvents, LAMBDA e : e.type = "arousal-linked"))
             stressLikelihood ==
                 IF Len(clenchEvents) > 0
                 THEN MathRound(DoubleTimes100(DoubleDiv(arousalLinkedCount,
                                                      Len(clenchEvents))))
                 ELSE 0
             clenchPenalty == Min(40, Len(clenchEvents) * 2)
             tempPenalty == NMin(20, tempDrift)
             sleepQualityScore ==
                 IF tempPenalty.nan THEN NaN
                 ELSE Num(Max(0, RoundLessHalfStdDev(
                                     100 - clenchPenalty - tempPenalty.v, 30, hrValues)))
         IN  [sessionId |-> sessionId, userId |-> userId, duration |-> durationSecs,
              clenchCount |-> Len(clenchEvents),
              stressLikelihood |-> stressLikelihood,
              sleepQualityScore |-> sleepQualityScore,
              avgHR |-> RoundDiv(SumSeq(hrValues) * 10, Len(hrValues)),
              hrVariability |-> RoundStdDevTenths(hrValues),
              peakEMG |-> MaxSeq([i \in 1..Len(d) |-> d[i].emg]),
              avgTemp |-> IF avgTemp.nan THEN NaN
                          ELSE Num(RoundDiv(avgTemp.v, Len(d))),
              tempDrift |-> tempDrift]

computeReport(sessionId, userId, d, durationSecs) ==
    IF Len(d) = 0
    THEN [sessionId |-> sessionId, userId |-> userId, duration |-> durationSecs,
          clenchCount |-> 0, stressLikelihood |-> 0, sleepQualityScore |-> Num(85),
          avgHR |-> 650, hrVariability |-> 20, peakEMG |-> 0,
          avgTemp |-> Num(3650), tempDrift |-> Num(0)]
    ELSE LET clenchEvents == classifyEvents(d).clenchEvents
             hrValues == [i \in 1..Len(d) |-> d[i].hr]
             avgTemp == TempSum(d, 1)
             tempDrift == NAbs(NSub(TempOf(d[Len(d)]), TempOf(d[1])))
             arousalLinkedCount ==
                 Len(SelectSeq(clenchEvents, LAMBDA e : e.type = "arousal-linked"))
             stressLikelihood ==
                 IF Len(clenchEvents) > 0
                 THEN MathRound(DoubleTimes100(DoubleDiv(arousalLinkedCount,
                                                      Len(clenchEvents))))
                 ELSE 0
             clenchPenalty == Min(40, Len(clenchEvents) * 2)
             tempPenalty == NMin(20, tempDrift)
             sleepQualityScore ==
                 IF tempPenalty.nan THEN NaN
                 ELSE Num(Max(0, RoundLessHalfStdDev(
                                     100 - clenchPenalty - tempPenalty.v, 30, hrValues)))
         IN  [sessionId |-> sessionId, userId |-> userId, duration |-> durationSecs,
              clenchCount |-> Len(clenchEvents),
              stressLikelihood |-> stressLikelihood,
              sleepQualityScore |-> sleepQualityScore,
              avgHR |-> RoundDiv(SumSeq(hrValues) * 10, Len(hrValues)),
              hrVariability |-> RoundStdDevTenths(hrValues),
              peakEMG |-> MaxSeq([i \in 1..Len(d) |-> d[i].emg]),
              avgTemp |-> IF avgTemp.nan THEN NaN
                          ELSE Num(RoundDiv(avgTemp.v, Len(d))),
              tempDrift |-> tempDrift]

\* ---- computeLiveStats (reportLogic.ts 247-280); pre is the optional
\* argument precomputed: [given |-> FALSE, events |-> <<>>] when left out ----
\* computeLiveStats with a clench penalty of 3 per event.
computeLiveStats_Penalty3(d, pre) ==
    IF Len(d) = 0
    THEN [clenchCount |-> 0, stressLikelihood |-> 0, sleepQualityScore |-> Num(100),
          avgHR |-> 0, peakEMG |-> 0, avgTemp |-> Num(0), isClenching |-> FALSE]
    ELSE LET clenchEvents == IF pre.given THEN pre.events
                             ELSE classifyEvents(d).clenchEvents
             hrValues == [i \in 1..Len(d) |-> d[i].hr]
             avgTemp == TempSum(d, 1)
             tempDrift == NAbs(NSub(TempOf(d[Len(d)]), TempOf(d[1])))
             arousalLinkedCount ==
                 Len(SelectSeq(clenchEvents, LAMBDA e : e.type = "arousal-linked"))
             stressLikelihood ==
                 IF Len(clenchEvents) > 0
                 THEN MathRound(DoubleTimes100(DoubleDiv(arousalLinkedCount,
                                                      Len(clenchEvents))))
                 ELSE 0
             clenchPenalty == Min(40, Len(clenchEvents) * 3)
             tempPenalty == NMin(20, tempDrift)
             sleepQualityScore ==
                 IF tempPenalty.nan THEN NaN
                 ELSE Num(Max(0, RoundLessHalfStdDev(
                                     100 - clenchPenalty - tempPenalty.v, 30, hrValues)))
             last == d[Len(d)]
         IN  [clenchCount |-> Len(clenchEvents),
              stressLikelihood |-> stressLikelihood,
              sleepQualityScore |-> sleepQualityScore,
              avgHR |-> RoundDiv(SumSeq(hrValues) * 10, Len(hrValues)),
              peakEMG |-> MaxSeq([i \in 1..Len(d) |-> d[i].emg]),
              avgTemp |-> IF avgTemp.nan THEN NaN
                          ELSE Num(RoundDiv(avgTemp.v, Len(d))),
              isClenching |-> last.emg >= EMG_THRESHOLD]

\* computeLiveStats with a strict comparison in isClenching.
computeLiveStats_StrictClenching(d, pre) ==
    IF Len(d) = 0
    THEN [clenchCount |-> 0, stressLikelihood |-> 0, sleepQualityScore |-> Num(100),
          avgHR |-> 0, peakEMG |-> 0, avgTemp |-> Num(0), isClenching |-> FALSE]
    ELSE LET clenchEvents == IF pre.given THEN pre.events
                             ELSE classifyEvents(d).clenchEvents
             hrValues == [i \in 1..Len(d) |-> d[i].hr]
             avgTemp == TempSum(d, 1)
             tempDrift == NAbs(NSub(TempOf(d[Len(d)]), TempOf(d[1])))
             arousalLinkedCount ==
                 Len(SelectSeq(clenchEvents, LAMBDA e : e.type = "arousal-linked"))
             stressLikelihood ==
                 IF Len(clenchEvents) > 0
                 THEN MathRound(DoubleTimes100(DoubleDiv(arousalLinkedCount,
                                                      Len(clenchEvents))))
                 ELSE 0
             clenchPenalty == Min(40, Len(clenchEvents) * 2)
             tempPenalty == NMin(20, tempDrift)
             sleepQualityScore ==
                 IF tempPenalty.nan THEN NaN
                 ELSE Num(Max(0, RoundLessHalfStdDev(
                                     100 - clenchPenalty - tempPenalty.v, 30, hrValues)))
             last == d[Len(d)]
         IN  [clenchCount |-> Len(clenchEvents),
              stressLikelihood |-> stressLikelihood,
              sleepQualityScore |-> sleepQualityScore,
              avgHR |-> RoundDiv(SumSeq(hrValues) * 10, Len(hrValues)),
              peakEMG |-> MaxSeq([i \in 1..Len(d) |-> d[i].emg]),
              avgTemp |-> IF avgTemp.nan THEN NaN
                          ELSE Num(RoundDiv(avgTemp.v, Len(d))),
              isClenching |-> last.emg > EMG_THRESHOLD]

\* computeLiveStats with the clench penalty left uncapped.
computeLiveStats_NoClenchCap(d, pre) ==
    IF Len(d) = 0
    THEN [clenchCount |-> 0, stressLikelihood |-> 0, sleepQualityScore |-> Num(100),
          avgHR |-> 0, peakEMG |-> 0, avgTemp |-> Num(0), isClenching |-> FALSE]
    ELSE LET clenchEvents == IF pre.given THEN pre.events
                             ELSE classifyEvents(d).clenchEvents
             hrValues == [i \in 1..Len(d) |-> d[i].hr]
             avgTemp == TempSum(d, 1)
             tempDrift == NAbs(NSub(TempOf(d[Len(d)]), TempOf(d[1])))
             arousalLinkedCount ==
                 Len(SelectSeq(clenchEvents, LAMBDA e : e.type = "arousal-linked"))
             stressLikelihood ==
                 IF Len(clenchEvents) > 0
                 THEN MathRound(DoubleTimes100(DoubleDiv(arousalLinkedCount,
                                                      Len(clenchEvents))))
                 ELSE 0
             clenchPenalty == Len(clenchEvents) * 2
             tempPenalty == NMin(20, tempDrift)
             sleepQualityScore ==
                 IF tempPenalty.nan THEN NaN
                 ELSE Num(Max(0, RoundLessHalfStdDev(
                                     100 - clenchPenalty - tempPenalty.v, 30, hrValues)))
             last == d[Len(d)]
         IN  [clenchCount |-> Len(clenchEvents),
              stressLikelihood |-> stressLikelihood,
              sleepQualityScore |-> sleepQualityScore,
              avgHR |-> RoundDiv(SumSeq(hrValues) * 10, Len(hrValues)),
              peakEMG |-> MaxSeq([i \in 1..Len(d) |-> d[i].emg]),
              avgTemp |-> IF avgTemp.nan THEN NaN
                          ELSE Num(RoundDiv(avgTemp.v, Len(d))),
              isClenching |-> last.emg >= EMG_THRESHOLD]

computeLiveStats(d, pre) ==
    IF Len(d) = 0
    THEN [clenchCount |-> 0, stressLikelihood |-> 0, sleepQualityScore |-> Num(100),
          avgHR |-> 0, peakEMG |-> 0, avgTemp |-> Num(0), isClenching |-> FALSE]
    ELSE LET clenchEvents == IF pre.given THEN pre.events
                             ELSE classifyEvents(d).clenchEvents
             hrValues == [i \in 1..Len(d) |-> d[i].hr]
             avgTemp == TempSum(d, 1)
             tempDrift == NAbs(NSub(TempOf(d[Len(d)]), TempOf(d[1])))
             arousalLinkedCount ==
                 Len(SelectSeq(clenchEvents, LAMBDA e : e.type = "arousal-linked"))
             stressLikelihood ==
                 IF Len(clenchEvents) > 0
                 THEN MathRound(DoubleTimes100(DoubleDiv(arousalLinkedCount,
                                                      Len(clenchEvents))))
                 ELSE 0
             clenchPenalty == Min(40, Len(clenchEvents) * 2)
             tempPenalty == NMin(20, tempDrift)
             sleepQualityScore ==
                 IF tempPenalty.nan THEN NaN
                 ELSE Num(Max(0, RoundLessHalfStdDev(
                                     100 - clenchPenalty - tempPenalty.v, 30, hrValues)))
             last == d[Len(d)]
         IN  [clenchCount |-> Len(clenchEvents),
              stressLikelihood |-> stressLikelihood,
              sleepQualityScore |-> sleepQualityScore,
              avgHR |-> RoundDiv(SumSeq(hrValues) * 10, Len(hrValues)),
              peakEMG |-> MaxSeq([i \in 1..Len(d) |-> d[i].emg]),
              avgTemp |-> IF avgTemp.nan THEN NaN
                          ELSE Num(RoundDiv(avgTemp.v, Len(d))),
              isClenching |-> last.emg >= EMG_THRESHOLD]

\* ---- inputs: bounded families of sample streams ----
\* The longest stream drawn.
MaxLen == 4

\* A sample; tp = NaN stands for a sample without a temp property.
MkPoint(t, e, h, tp) ==
    IF tp.nan THEN [t |-> t, emg |-> e, hr |-> h]
    ELSE [t |-> t, emg |-> e, hr |-> h, temp |-> tp.v]

RECURSIVE TimeAt(_, _)
\* The timestamp of sample i when the steps between samples are c[1].dt, ...
TimeAt(c, i) == IF i = 0 THEN 0 ELSE TimeAt(c, i - 1) + c[i].dt

\* The stream of samples chosen by c: timestamps start at 0 + c[1].dt and grow
\* by the steps c[i].dt >= 0 (non-decreasing t).
Stream(c) ==
    [i \in 1..Len(c) |-> MkPoint(TimeAt(c, i), c[i].emg, c[i].hr, c[i].temp)]

\* What one sample of a family of streams is drawn from.
Choices(f) == [dt : f.DT, emg : f.EMG, hr : f.HR, temp : f.TEMP]

Family(len, DT, EMG, HR, TEMP) ==
    [len |-> len, DT |-> DT, EMG |-> EMG, HR |-> HR, TEMP |-> TEMP]

\* Free streams: every sample drawn from the family's sets.
\*  - clench timing around MIN_CLENCH_MS, emg around EMG_THRESHOLD;
\*  - arousal timing around AROUSAL_MIN_MS: against a median of 50 bpm,
\*    56 bpm is an activation of exactly 12 % and 57 bpm one of 14 %;
\*  - clenches and arousals around the two ends of the arousal-only window.
FreeFamilies ==
    { Family(MaxLen, {0, 399, 400}, {249, 250}, {60}, {Num(3650)}),
      Family(MaxLen, {400}, {249, 250, 300}, {60}, {Num(3650)}),
      Family(MaxLen, {0, 1999, 2000}, {0}, {50, 56}, {Num(3650)}),
      Family(MaxLen + 1, {2000}, {0}, {50, 56, 57}, {Num(3650)}),
      Family(MaxLen, {15000, 15001}, {0, 300}, {50, 56}, {Num(3650)}),
      Family(MaxLen - 1, {5000, 5001}, {0, 300}, {50, 56}, {Num(3650)}),
      Family(MaxLen, {200, 300, 600}, {0, 300}, {60}, {Num(3650)}),
      Family(MaxLen, {1000}, {0, 300}, {0, 60, 70}, {Num(3650)}) }

\* Streams made of a quiet prefix (emg 0) followed by one clench: two samples
\* at emg 300, 500 ms apart, the second being the last of the stream, so the
\* run is closed at the end of the stream with 500 >= MIN_CLENCH_MS.
\*  - samples around the two ends of the preceding window: against a median
\*    of 60 bpm, 63 bpm is an activation of exactly 5 %;
\*  - heart rate 60 or 72 (20 % above 60) in the 5 s before the clench.
ClenchTailFamilies ==
    { Family(MaxLen - 2, {1, 500, 14500, 15000}, {0}, {60, 63, 64}, {Num(3650)}),
      Family(MaxLen - 1, {500, 4500, 5000}, {0}, {60, 72}, {Num(3650)}) }

ClenchTail(c, dt, h1, h2) ==
    Stream(c \o << [dt |-> dt, emg |-> 300, hr |-> h1, temp |-> Num(3650)],
                   [dt |-> 500, emg |-> 300, hr |-> h2, temp |-> Num(3650)] >>)

\* Short streams with a spread of heart rates and temperatures, some samples
\* without temp, for the statistics.
ScoreFamily(len) ==
    Family(len, {400}, {0, 300}, {60, 70}, {Num(3650), Num(3660), Num(3680), NaN})

\* The most events in a precomputed list handed to computeLiveStats.
MaxEvents == 40

\* A classified event as a caller may hand it to computeLiveStats.
PrecomputedEvent(i, type) ==
    [startMs |-> 1000 * i, endMs |-> 1000 * i + 500, peakEMG |-> 300,
     type |-> type, peakIntensity |-> emgToIntensity(300),
     durationSec |-> Rat(500, 1000), severityLabel |-> "Mild"]

\* Lists of ab[2] events, the first ab[1] arousal-linked, the others isolated.
PrecomputedLists ==
    { [given |-> TRUE,
       events |-> [i \in 1..ab[2] |->
                      PrecomputedEvent(i, IF i <= ab[1] THEN "arousal-linked"
                                          ELSE "isolated")]] :
        ab \in { x \in (0..MaxEvents) \X (0..MaxEvents) : x[1] <= x[2] } }

NoPrecomputed == [given |-> FALSE, events |-> <<>>]

\* Two-sample streams with a wide spread of heart rate and temperature, handed
\* to computeLiveStats with a short, a middling or the longest event list.
PenaltyFamily ==
    Family(2, {400}, {0}, {60, 200}, {Num(3650), Num(3680)})

PenaltyLists ==
    { p \in PrecomputedLists :
        /\ Len(p.events) \in {0, 19, 20, MaxEvents}
        /\ \A k \in 1..Len(p.events) : p.events[k].type = "isolated" }

\* ---- state: the arguments of the calls and what each call produced ----
\* ---- inputs of the signal transforms ----
\* The largest ADC count, heart rate and baseline the transforms are applied to.
MaxProbeAdc == 1030
MaxProbeHr == 30

NoProbe == [given |-> FALSE, adc |-> 0, hr |-> 0, baseline |-> 0]

\* One ADC count (negative counts included), or one pair of a heart rate and
\* a baseline (zero and negative baselines included).
Probes ==
    [given : {TRUE}, adc : (0 - 2)..MaxProbeAdc, hr : {0}, baseline : {0}]
    \cup [given : {TRUE}, adc : {0}, hr : 0..MaxProbeHr,
          baseline : (0 - 1)..MaxProbeHr]

VARIABLES data, precomputed, durationSeconds, probe, pc, classified, liveStats,
          report, transformed

\* ---- state of a live session (Dashboard, part_006) ----
\* appStatus, liveStats (above) and clenchEvents are React state; rawBuf,
\* startTime, sseSource and timerRefs are the refs rawBuf.current,
\* startTime.current, sseSource.current and the three timer refs, which are
\* always assigned and cleared together.  now is Date.now().  connectPc[i] is
\* where invocation i of handleConnect stands; sseOpen and timersLive are the
\* invocations whose EventSource is open and whose intervals are running.
\* analyses is a history variable: the buffers the analyses ran on and what
\* they reported.  dump is the text handed to the chat agent.  Display-only
\* state (chartData, elapsedSec, clenchFlash, deviceConnected) is left out.
VARIABLES appStatus, rawBuf, startTime, now, connectPc, sseSource, sseOpen,
          timerRefs, timersLive, clenchEvents, analyses, dump

callVars == <<data, precomputed, durationSeconds, probe, pc, classified, report,
              transformed>>
sessionVars == <<appStatus, rawBuf, startTime, now, connectPc, sseSource, sseOpen,
                 timerRefs, timersLive, clenchEvents, analyses, dump>>

\* ---- state of the chat agent (BruxismAgent, bruxismAgent.ts) ----
\* messages is this.messages; agentPc is where sendMessage stands ("idle"
\* when no call is in progress, "discarded" when the chat has dropped the
\* agent); iteration is the loop counter i; pending is the tool call of the
\* last assistant message that is executed next; sends counts the calls of
\* sendMessage.
VARIABLES messages, agentPc, iteration, pending, sends

agentVars == <<messages, agentPc, iteration, pending, sends>>
vars == <<callVars, liveStats, sessionVars, agentVars>>

NotCalled == [called |-> FALSE]

\* The invocations of handleConnect, the SSE messages and the analyses of
\* distinct buffers that a behaviour holds at most.
MaxConnects == 2
MaxMessages == 5
MaxAnalyses == 3
\* The time between two SSE messages.
SampleGapMs == 1000

Invocations == 1..MaxConnects

\* The readings d.bpm, d.emg of an SSE message (0 where the field is absent).
Readings ==
    { [bpm |-> 0, emg |-> 0], [bpm |-> 60, emg |-> 0], [bpm |-> 70, emg |-> 0],
      [bpm |-> 60, emg |-> 300] }

EMPTY_STATS ==
    [clenchCount |-> 0, stressLikelihood |-> 0, sleepQualityScore |-> Num(100),
     avgHR |-> 0, peakEMG |-> 0, avgTemp |-> Num(0), isClenching |-> FALSE]

\* The calls of sendMessage and the tool calls of one assistant message that a
\* behaviour holds at most.
MaxSends == 2
MaxToolCalls == 2
\* The function-call iterations of one sendMessage (the bound of its loop).
MaxIterations == 5

SystemPrompt == [role |-> "system"]
UserMessage == [role |-> "user"]
\* An assistant message with n tool calls, whose ids are 1..n; a text reply
\* has none.
AssistantMessage(n) == [role |-> "assistant", tool_calls |-> n]
ToolMessage(id) == [role |-> "tool", tool_call_id |-> id]

\* new BruxismAgent(...): the history holds the system prompt (lines 93-95).
AgentInit ==
    /\ messages = <<SystemPrompt>>
    /\ agentPc = "idle"
    /\ iteration = 0
    /\ pending = 0
    /\ sends = 0

\* Before the first click: the initial values of the refs and of the state.
SessionInit ==
    /\ appStatus = "disconnected"
    /\ rawBuf = <<>>
    /\ startTime = 0
    /\ now = 0
    /\ connectPc = [i \in Invocations |-> "idle"]
    /\ sseSource = 0
    /\ sseOpen = {}
    /\ timerRefs = 0
    /\ timersLive = {}
    /\ clenchEvents = <<>>
    /\ analyses = <<>>
    /\ dump = NotCalled

Init ==
    /\ \/ \E f \in FreeFamilies : \E n \in 0..f.len : \E c \in [1..n -> Choices(f)] :
             /\ data = Stream(c)
             /\ precomputed = NoPrecomputed
             /\ durationSeconds = 0
             /\ probe = NoProbe
       \/ \E f \in ClenchTailFamilies : \E n \in 0..f.len :
          \E c \in [1..n -> Choices(f)], dt \in f.DT, h1 \in f.HR, h2 \in f.HR :
             /\ data = ClenchTail(c, dt, h1, h2)
             /\ precomputed = NoPrecomputed
             /\ durationSeconds = 0
             /\ probe = NoProbe
       \/ \E n \in 0..(MaxLen - 2) : \E c \in [1..n -> Choices(ScoreFamily(n))] :
          \E dur \in {0, 90} :
             /\ data = Stream(c)
             /\ precomputed = NoPrecomputed
             /\ durationSeconds = dur
             /\ probe = NoProbe
       \/ \E n \in 0..1 : \E c \in [1..n -> Choices(ScoreFamily(n))] :
          \E pre \in PrecomputedLists :
             /\ data = Stream(c)
             /\ precomputed = pre
             /\ durationSeconds = 90
             /\ probe = NoProbe
       \/ \E n \in 1..2 : \E c \in [1..n -> Choices(PenaltyFamily)] :
          \E pre \in PenaltyLists :
             /\ data = Stream(c)
             /\ precomputed = pre
             /\ durationSeconds = 90
             /\ probe = NoProbe
       \/ \E pr \in Probes :
             /\ data = <<>>
             /\ precomputed = NoPrecomputed
             /\ durationSeconds = 0
             /\ probe = pr
    /\ pc = "start"
    /\ classified = NotCalled
    /\ liveStats = NotCalled
    /\ report = NotCalled
    /\ transformed = NotCalled
    /\ SessionInit
    /\ AgentInit

\* The caller runs classifyEvents(data).
CallClassifyEvents ==
    /\ pc = "start"
    /\ pc' = "classified"
    /\ classified' = classifyEvents(data)
    /\ UNCHANGED <<data, precomputed, durationSeconds, probe, liveStats, report,
                   transformed>>
    /\ UNCHANGED <<sessionVars, agentVars>>

\* The caller runs computeLiveStats(data, precomputed).
CallComputeLiveStats ==
    /\ pc = "classified"
    /\ pc' = "stats"
    /\ liveStats' = computeLiveStats(data, precomputed)
    /\ UNCHANGED <<data, precomputed, durationSeconds, probe, classified, report,
                   transformed>>
    /\ UNCHANGED <<sessionVars, agentVars>>

\* The caller runs computeReport(sessionId, userId, data, durationSeconds).
CallComputeReport ==
    /\ pc = "stats"
    /\ pc' = "done"
    /\ report' = computeReport("session", "user", data, durationSeconds)
    /\ UNCHANGED <<data, precomputed, durationSeconds, probe, classified,
                   liveStats, transformed>>
    /\ UNCHANGED <<sessionVars, agentVars>>

\* The display code applies the signal transforms to a reading: emgToLevel in
\* the jaw-activity chart, emgToCategory on the latest EMG, hrToActivation in
\* the activation chart, emgToIntensity on a peak.
CallTransforms ==
    /\ pc = "done" /\ probe.given
    /\ pc' = "transformed"
    /\ transformed' = [intensity |-> emgToIntensity(probe.adc),
                       category |-> emgToCategory(probe.adc),
                       level |-> emgToLevel(probe.adc),
                       activation |-> hrToActivation(probe.hr, probe.baseline)]
    /\ UNCHANGED <<data, precomputed, durationSeconds, probe, classified,
                   liveStats, report>>
    /\ UNCHANGED <<sessionVars, agentVars>>

Next ==
    CallClassifyEvents \/ CallComputeLiveStats \/ CallComputeReport
        \/ CallTransforms

Spec == Init /\ [][Next]_vars

\* ---- buildSensorDataDump (reportLogic.ts 339-433): the figures of the ----
\* ---- OVERALL STATISTICS block and the entries of the event log        ----
buildSensorDataDump(d, stats) ==
    LET c == classifyEvents(d)
        arousalLinked == SelectSeq(c.clenchEvents, LAMBDA e : e.type = "arousal-linked")
        isolated == SelectSeq(c.clenchEvents, LAMBDA e : e.type = "isolated")
    IN  [totalDataPoints |-> Len(d),
         totalEvents |-> stats.clenchCount,
         arousalLinked |-> Len(arousalLinked),
         isolated |-> Len(isolated),
         arousalOnly |-> Len(c.arousalOnlyEvents),
         arousalLinkedRate |-> stats.stressLikelihood,
         sleepQualityScore |-> stats.sleepQualityScore,
         isClenching |-> stats.isClenching,
         eventLog |-> [k \in 1..Len(c.clenchEvents) |->
                          [type |-> c.clenchEvents[k].type,
                           startMs |-> c.clenchEvents[k].startMs,
                           endMs |-> c.clenchEvents[k].endMs]]]

\* ---- the live session: handleConnect, its callbacks, handleDisconnect ----
\* A JavaScript callback runs to completion, so each action is one callback or
\* one stretch of handleConnect between two awaits.

\* Analyse with the stats computed from the events of the analysis before.
Analyse_StaleEvents(buf) ==
    LET evts == classifyEvents(buf).clenchEvents
        stats == computeLiveStats(buf, [given |-> TRUE, events |-> clenchEvents])
    IN  /\ clenchEvents' = evts
        /\ liveStats' = stats
        /\ analyses' = IF analyses # <<>> /\ analyses[Len(analyses)].buf = buf
                        THEN analyses
                        ELSE Append(analyses, [buf |-> buf, clenchEvents |-> evts,
                                               stats |-> stats])

\* classifyEvents(buf), setClenchEvents, computeLiveStats(buf, evts),
\* setLiveStats: the body of the analysis timer (part_006 143-148) and of the
\* final analysis of handleDisconnect (172-176).
Analyse(buf) ==
    LET evts == classifyEvents(buf).clenchEvents
        stats == computeLiveStats(buf, [given |-> TRUE, events |-> evts])
    IN  /\ clenchEvents' = evts
        /\ liveStats' = stats
        /\ analyses' = IF analyses # <<>> /\ analyses[Len(analyses)].buf = buf
                        THEN analyses
                        ELSE Append(analyses, [buf |-> buf, clenchEvents |-> evts,
                                               stats |-> stats])

\* A click on Connect (the button calls handleConnect unless appStatus is
\* 'connected', line 332): invocation i sends the session request and awaits.
handleConnect(i) ==
    /\ appStatus # "connected"
    /\ connectPc[i] = "idle"
    /\ \A j \in 1..(i - 1) : connectPc[j] # "idle"
    /\ connectPc' = [connectPc EXCEPT ![i] = "creating"]
    /\ UNCHANGED <<agentVars, callVars, liveStats, appStatus, rawBuf, startTime, now, sseSource,
                   sseOpen, timerRefs, timersLive, clenchEvents, analyses, dump>>

\* The session request of invocation i returns (lines 83-101): on failure
\* handleConnect returns; otherwise it empties the buffer, restarts the clock
\* of the session, resets the live stats, sets appStatus and awaits the reset
\* request to the data hub.
SessionCreated(i) ==
    /\ connectPc[i] = "creating"
    /\ \E ok \in BOOLEAN :
          IF ok
          THEN /\ rawBuf' = <<>>
               /\ startTime' = now
               /\ liveStats' = EMPTY_STATS
               /\ appStatus' = "connected"
               /\ connectPc' = [connectPc EXCEPT ![i] = "resetting"]
          ELSE /\ connectPc' = [connectPc EXCEPT ![i] = "returned"]
               /\ UNCHANGED <<rawBuf, startTime, liveStats, appStatus>>
    /\ UNCHANGED <<agentVars, callVars, now, sseSource, sseOpen, timerRefs, timersLive,
                   clenchEvents, analyses, dump>>

\* The reset request of invocation i settles, resolved or rejected (lines
\* 101-155): handleConnect opens its EventSource and starts its three
\* intervals, storing the handles in the refs.
ResetSettled(i) ==
    /\ connectPc[i] = "resetting"
    /\ sseOpen' = sseOpen \cup {i}
    /\ sseSource' = i
    /\ timersLive' = timersLive \cup {i}
    /\ timerRefs' = i
    /\ connectPc' = [connectPc EXCEPT ![i] = "returned"]
    /\ UNCHANGED <<agentVars, callVars, liveStats, appStatus, rawBuf, startTime, now,
                   clenchEvents, analyses, dump>>

\* sse.onmessage of the EventSource of invocation i (lines 108-121).  The
\* clock is read when a reading is recorded, SampleGapMs after the reading
\* recorded before it; a message without a reading leaves everything as it is.
onmessage(i, d) ==
    /\ i \in sseOpen
    /\ now < MaxMessages * SampleGapMs
    /\ IF d.bpm > 0 \/ d.emg > 0
       THEN /\ now' = now + SampleGapMs
            /\ rawBuf' = Append(rawBuf, [t |-> now' - startTime, hr |-> d.bpm,
                                         emg |-> d.emg, temp |-> 3650])
       ELSE UNCHANGED <<now, rawBuf>>
    /\ UNCHANGED <<agentVars, callVars, liveStats, appStatus, startTime, connectPc, sseSource,
                   sseOpen, timerRefs, timersLive, clenchEvents, analyses, dump>>

\* The callback of the analysis interval of invocation i (lines 142-155).
analysisTimer(i) ==
    /\ i \in timersLive
    /\ rawBuf # <<>>
    /\ Len(analyses) < MaxAnalyses
    /\ Analyse(rawBuf)
    /\ UNCHANGED <<agentVars, callVars, appStatus, rawBuf, startTime, now, connectPc,
                   sseSource, sseOpen, timerRefs, timersLive, dump>>

\* A click on Disconnect (lines 160-178).
handleDisconnect ==
    /\ appStatus = "connected"
    /\ timersLive' = timersLive \ {timerRefs}
    /\ sseOpen' = sseOpen \ {sseSource}
    /\ sseSource' = 0
    /\ IF rawBuf # <<>> THEN Analyse(rawBuf)
       ELSE UNCHANGED <<clenchEvents, liveStats, analyses>>
    /\ appStatus' = "disconnected"
    /\ UNCHANGED <<agentVars, callVars, rawBuf, startTime, now, connectPc, timerRefs, dump>>

\* The chat creates its agent on the first message (ChatBot.tsx 158-170) with
\* buildSensorDataDump(getRawData(), liveStats): the buffer as it is now, the
\* live stats as last set.
ensureAgent ==
    /\ dump = NotCalled
    /\ dump' = buildSensorDataDump(rawBuf, liveStats)
    /\ UNCHANGED <<agentVars, callVars, liveStats, appStatus, rawBuf, startTime, now, connectPc,
                   sseSource, sseOpen, timerRefs, timersLive, clenchEvents, analyses>>

LiveInit ==
    /\ data = <<>>
    /\ precomputed = NoPrecomputed
    /\ durationSeconds = 0
    /\ probe = NoProbe
    /\ pc = "start"
    /\ classified = NotCalled
    /\ liveStats = EMPTY_STATS
    /\ report = NotCalled
    /\ transformed = NotCalled
    /\ SessionInit
    /\ AgentInit

LiveNext ==
    \/ \E i \in Invocations : handleConnect(i)
    \/ \E i \in Invocations : SessionCreated(i)
    \/ \E i \in Invocations : ResetSettled(i)
    \/ \E i \in Invocations : \E d \in Readings : onmessage(i, d)
    \/ \E i \in Invocations : analysisTimer(i)
    \/ handleDisconnect

LiveSpec == LiveInit /\ [][LiveNext]_vars

\* One session: a single click on Connect.
SessionNext ==
    \/ handleConnect(1)
    \/ SessionCreated(1)
    \/ ResetSettled(1)
    \/ \E d \in Readings : onmessage(1, d)
    \/ analysisTimer(1)
    \/ handleDisconnect

SessionSpec == LiveInit /\ [][SessionNext]_vars

\* A session with the chat in use: one click on Connect, and the agent
\* created at any moment.
ChatNext ==
    \/ handleConnect(1)
    \/ SessionCreated(1)
    \/ ResetSettled(1)
    \/ \E d \in Readings : onmessage(1, d)
    \/ analysisTimer(1)
    \/ handleDisconnect
    \/ ensureAgent

ChatSpec == LiveInit /\ [][ChatNext]_vars

\* ---- the chat agent: sendMessage and reset (bruxismAgent.ts 167-230) ----
\* handleSend (ChatBot.tsx 174-202) refuses a message while one is being
\* answered, so sendMessage is never running twice; after a dropped agent
\* ensureAgent makes a new one, whose history is the system prompt.

\* The call of sendMessage up to its first request (lines 167-171).
sendMessage ==
    /\ agentPc \in {"idle", "discarded"}
    /\ sends < MaxSends
    /\ sends' = sends + 1
    /\ messages' = Append(IF agentPc = "discarded" THEN <<SystemPrompt>> ELSE messages,
                          UserMessage)
    /\ iteration' = 0
    /\ pending' = 0
    /\ agentPc' = "requesting"
    /\ UNCHANGED <<callVars, liveStats, sessionVars>>

\* The request with this.messages returns (lines 171-222): an error status
\* or a body without a message throws, and on a 401 the chat drops the agent;
\* a message with n tool calls is pushed and its calls are executed next; a
\* text reply is pushed and returned.
Respond ==
    /\ agentPc = "requesting"
    /\ \E outcome \in {"error", "unauthorized", "reply", "tool_calls"} :
       \E n \in 1..MaxToolCalls :
          CASE outcome = "error" ->
                   /\ agentPc' = "idle"
                   /\ UNCHANGED <<messages, pending>>
            [] outcome = "unauthorized" ->
                   /\ agentPc' = "discarded"
                   /\ UNCHANGED <<messages, pending>>
            [] outcome = "reply" ->
                   /\ messages' = Append(messages, AssistantMessage(0))
                   /\ agentPc' = "idle"
                   /\ UNCHANGED pending
            [] outcome = "tool_calls" ->
                   /\ messages' = Append(messages, AssistantMessage(n))
                   /\ pending' = 1
                   /\ agentPc' = "executing"
    /\ UNCHANGED <<iteration, sends>>
    /\ UNCHANGED <<callVars, liveStats, sessionVars>>

\* One turn of the loop over msg.tool_calls (lines 204-212): JSON.parse of the
\* arguments or the executor may throw, which ends sendMessage; otherwise the
\* tool message is pushed.  After the last call the outer loop continues with
\* the next request, or, after the fifth iteration, sendMessage throws
\* 'Too many function call iterations' (line 225).
ExecuteToolCall ==
    /\ agentPc = "executing"
    /\ \E outcome \in {"parse_error", "executor_error", "result"} :
          IF outcome = "result"
          THEN /\ messages' = Append(messages, ToolMessage(pending))
               /\ IF pending < messages[Len(messages) - (pending - 1)].tool_calls
                  THEN /\ pending' = pending + 1
                       /\ UNCHANGED <<agentPc, iteration>>
                  ELSE /\ pending' = 0
                       /\ iteration' = iteration + 1
                       /\ agentPc' = IF iteration + 1 < MaxIterations
                                     THEN "requesting" ELSE "idle"
          ELSE /\ agentPc' = "idle"
               /\ UNCHANGED <<messages, pending, iteration>>
    /\ UNCHANGED sends
    /\ UNCHANGED <<callVars, liveStats, sessionVars>>

\* reset() (lines 228-230), called while no sendMessage is running.
reset ==
    /\ agentPc = "idle"
    /\ Len(messages) > 1
    /\ messages' = SubSeq(messages, 1, 1)
    /\ UNCHANGED <<agentPc, iteration, pending, sends>>
    /\ UNCHANGED <<callVars, liveStats, sessionVars>>

AgentNext == sendMessage \/ Respond \/ ExecuteToolCall \/ reset

AgentSpec == LiveInit /\ [][AgentNext]_vars

\* ---- runs of the signal, read off the samples ----
ClenchAbove(i) == data[i].emg >= EMG_THRESHOLD

\* activation >= AROUSAL_DETECT_PCT against the baseline of the call
ArousalAbove(i) ==
    /\ classified.hrBaseline > 0
    /\ (data[i].hr - classified.hrBaseline) * 100
           >= AROUSAL_DETECT_PCT * classified.hrBaseline

\* The maximal runs <<i, j>> of consecutive samples that satisfy Above.
Runs(Above(_)) ==
    { r \in (1..Len(data)) \X (1..Len(data)) :
        /\ r[1] <= r[2]
        /\ \A k \in r[1]..r[2] : Above(k)
        /\ r[1] = 1 \/ ~Above(r[1] - 1)
        /\ r[2] = Len(data) \/ ~Above(r[2] + 1) }

RunStart(r) == data[r[1]].t
\* A run lasts until the first sample below the threshold, or until the last
\* sample of the stream.
RunClose(r) == IF r[2] < Len(data) THEN data[r[2] + 1].t ELSE data[Len(data)].t
RunMs(r) == RunClose(r) - RunStart(r)
EpisodesOf(events, r) ==
    { k \in 1..Len(events) :
        events[k].startMs = RunStart(r) /\ events[k].endMs = RunClose(r) }

MinDurationLaw(events, Above(_), minMs) ==
    /\ \A k \in 1..Len(events) :
          /\ events[k].endMs > events[k].startMs
          /\ events[k].endMs - events[k].startMs >= minMs
    /\ \A r \in Runs(Above) :
          /\ RunMs(r) = minMs - 1 => EpisodesOf(events, r) = {}
          /\ RunMs(r) = minMs => Cardinality(EpisodesOf(events, r)) = 1

\* C1: every clench episode lasts at least MIN_CLENCH_MS and every arousal
\* episode at least AROUSAL_MIN_MS, with endMs > startMs; a run that lasts
\* exactly the minimum less 1 ms (from its first sample to the sample that
\* closes it) yields no episode and a run of exactly the minimum yields one.
C1_MinimumDuration ==
    pc # "start" =>
        /\ MinDurationLaw(classified.rawClenches, ClenchAbove, MIN_CLENCH_MS)
        /\ MinDurationLaw(classified.arousalPeaks, ArousalAbove, AROUSAL_MIN_MS)

\* A stream with a clench run of 399 ms and one of 400 ms, of which the
\* detector kept one.
C1_Witness ==
    /\ pc # "start"
    /\ \E r1, r2 \in Runs(ClenchAbove) :
          RunMs(r1) = MIN_CLENCH_MS - 1 /\ RunMs(r2) = MIN_CLENCH_MS
    /\ Len(classified.rawClenches) = 1

Ordered(events) ==
    \A k \in 1..(Len(events) - 1) :
        /\ events[k].startMs <= events[k + 1].startMs
        /\ events[k].endMs <= events[k + 1].startMs

\* C2: the clench episodes and the arousal episodes, as detected and as
\* returned, are in non-decreasing startMs order and consecutive episodes of
\* one list do not overlap: a.endMs <= b.startMs.
C2_DisjointOrdered ==
    pc # "start" =>
        /\ Ordered(classified.rawClenches)
        /\ Ordered(classified.clenchEvents)
        /\ Ordered(classified.arousalPeaks)
        /\ Ordered(classified.arousalOnlyEvents)

\* Two clench episodes that do not start at the same time.
C2_Witness ==
    /\ pc # "start"
    /\ Len(classified.rawClenches) >= 2
    /\ classified.rawClenches[1].startMs < classified.rawClenches[2].startMs

ClenchTypes == {"arousal-linked", "isolated"}

\* C3: classifyEvents returns one classified event per raw clench episode, in
\* the same order and with the same startMs, endMs and peakEMG, each typed
\* arousal-linked or isolated.
C3_ClassificationPartition ==
    pc # "start" =>
        /\ Len(classified.clenchEvents) = Len(classified.rawClenches)
        /\ \A k \in 1..Len(classified.rawClenches) :
              /\ classified.clenchEvents[k].startMs = classified.rawClenches[k].startMs
              /\ classified.clenchEvents[k].endMs = classified.rawClenches[k].endMs
              /\ classified.clenchEvents[k].peakEMG = classified.rawClenches[k].peakEMG
              /\ classified.clenchEvents[k].type \in ClenchTypes

\* A call that returned an arousal-linked and an isolated event.
C3_Witness ==
    /\ pc # "start"
    /\ \E j, k \in 1..Len(classified.clenchEvents) :
          /\ classified.clenchEvents[j].type = "arousal-linked"
          /\ classified.clenchEvents[k].type = "isolated"

\* Sample i lies in the preceding window of a clench that starts at startMs.
InPrecedingWindow(i, startMs) ==
    /\ data[i].t >= startMs - PRECEDE_WINDOW_MS
    /\ data[i].t < startMs - PRECEDE_GAP_MS

\* The heart rate of sample i is more than pct % above the baseline of the call.
ActivationOver(i, pct) ==
    /\ classified.hrBaseline > 0
    /\ (data[i].hr - classified.hrBaseline) * 100 > pct * classified.hrBaseline

\* C4: a clench episode is typed arousal-linked iff some sample with
\* startMs - 15000 <= t < startMs - 500 has an activation strictly above 5 %,
\* and isolated otherwise.
C4_PrecedingWindow ==
    pc # "start" =>
        \A k \in 1..Len(classified.clenchEvents) :
            LET ev == classified.clenchEvents[k]
                preceded == \E i \in 1..Len(data) :
                                /\ InPrecedingWindow(i, ev.startMs)
                                /\ ActivationOver(i, ACTIVATION_PRECEDE)
            IN  /\ preceded => ev.type = "arousal-linked"
                /\ ~preceded => ev.type = "isolated"

\* An arousal-linked clench whose only activated sample lies exactly
\* PRECEDE_WINDOW_MS before its start, in a stream that also has a sample
\* exactly PRECEDE_GAP_MS before a clench.
C4_Witness ==
    /\ pc # "start"
    /\ \E k \in 1..Len(classified.clenchEvents) :
          LET ev == classified.clenchEvents[k]
          IN  /\ ev.type = "arousal-linked"
              /\ \A i \in 1..Len(data) :
                    ActivationOver(i, ACTIVATION_PRECEDE)
                        => data[i].t = ev.startMs - PRECEDE_WINDOW_MS
              /\ \E i \in 1..Len(data) : data[i].t = ev.startMs - PRECEDE_GAP_MS

\* Scenario C for a clench that starts at startMs: the heart rate is 60
\* except that it is 72 from the sample taken 5 s before the start up to the
\* start; what it does from the start on is left open.
ScenarioC(startMs) ==
    /\ \A i \in 1..Len(data) : data[i].hr \in {60, 72}
    /\ \E i \in 1..Len(data) : data[i].t = startMs - 5000
    /\ \A i \in 1..Len(data) :
          /\ data[i].t < startMs - 5000 => data[i].hr = 60
          /\ (data[i].t >= startMs - 5000 /\ data[i].t < startMs) => data[i].hr = 72

\* C5 as stated: in every stream of scenario C the clench is arousal-linked.
C5_ScenarioC_AnyStream ==
    pc # "start" =>
        \A k \in 1..Len(classified.clenchEvents) :
            ScenarioC(classified.clenchEvents[k].startMs)
                => classified.clenchEvents[k].type = "arousal-linked"

\* C5: in every stream of scenario C whose median heart rate is 60, the
\* clench is arousal-linked.
C5_ScenarioC_Median60 ==
    pc # "start" =>
        \A k \in 1..Len(classified.clenchEvents) :
            (ScenarioC(classified.clenchEvents[k].startMs)
                 /\ classified.hrBaseline = 60)
                => classified.clenchEvents[k].type = "arousal-linked"

\* A stream of scenario C with a median of 60 and samples before the rise,
\* in the rise and inside the 500 ms gap.
C5_Witness ==
    /\ pc # "start"
    /\ classified.hrBaseline = 60
    /\ \E k \in 1..Len(classified.clenchEvents) :
          LET startMs == classified.clenchEvents[k].startMs
          IN  /\ ScenarioC(startMs)
              /\ \E i \in 1..Len(data) : data[i].t < startMs - 5000
              /\ \E i \in 1..Len(data) :
                    data[i].t >= startMs - PRECEDE_GAP_MS /\ data[i].t < startMs

\* No raw clench starts in [startMs - 5000, endMs + 15000].
NoClenchNear(startMs, endMs) ==
    ~ \E j \in 1..Len(classified.rawClenches) :
          /\ classified.rawClenches[j].startMs >= startMs - AROUSAL_LOOKBACK_MS
          /\ classified.rawClenches[j].startMs <= endMs + AROUSAL_FOLLOW_MS

LongArousalRuns == { r \in Runs(ArousalAbove) : RunMs(r) >= AROUSAL_MIN_MS }

\* C6: an arousal episode (activation >= 12 % for >= 2000 ms) is among the
\* arousal-only events iff no raw clench starts in
\* [ap.startMs - 5000, ap.endMs + 15000], and nothing else is among them.
C6_ArousalOnly ==
    pc # "start" =>
        /\ \A r \in LongArousalRuns :
              EpisodesOf(classified.arousalOnlyEvents, r) # {}
                  <=> NoClenchNear(RunStart(r), RunClose(r))
        /\ \A k \in 1..Len(classified.arousalOnlyEvents) :
              \E r \in LongArousalRuns :
                  k \in EpisodesOf(classified.arousalOnlyEvents, r)

\* An arousal episode discarded for a clench that starts exactly
\* AROUSAL_FOLLOW_MS after its end.
C6_Witness ==
    /\ pc # "start"
    /\ classified.arousalOnlyEvents = <<>>
    /\ Len(classified.rawClenches) = 1
    /\ \E r \in LongArousalRuns :
          classified.rawClenches[1].startMs = RunClose(r) + AROUSAL_FOLLOW_MS

\* s is num / den rounded to the nearest integer, halves up (den > 0).
IsRounded(s, num, den) ==
    /\ 2 * s * den - den <= 2 * num
    /\ 2 * num < 2 * s * den + den

LinkedCount(events) ==
    Cardinality({ k \in 1..Len(events) : events[k].type = "arousal-linked" })

StressLikelihoodLaw(stats, events) ==
    /\ stats.clenchCount = Len(events)
    /\ stats.stressLikelihood \in 0..100
    /\ IF stats.clenchCount > 0
       THEN IsRounded(stats.stressLikelihood, 100 * LinkedCount(events),
                      stats.clenchCount)
       ELSE stats.stressLikelihood = 0

\* The clench events computeLiveStats works on.
LiveEvents ==
    IF Len(data) = 0 THEN <<>>
    ELSE IF precomputed.given THEN precomputed.events
    ELSE classified.clenchEvents

\* C7: in computeReport and computeLiveStats, stressLikelihood is
\* round(100 * arousalLinkedCount / clenchCount) when clenchCount > 0 and 0
\* when there is no clench episode; it is an integer in 0..100.
C7_StressLikelihood ==
    /\ pc \in {"stats", "done"} => StressLikelihoodLaw(liveStats, LiveEvents)
    /\ pc = "done" => StressLikelihoodLaw(report, classified.clenchEvents)

InScoreRange(x) == ~x.nan /\ x.v \in 0..100

\* C8: for every sample sequence, empty or not, with or without temp on the
\* samples, the sleepQualityScore of computeReport and of computeLiveStats is
\* a number between 0 and 100.
C8_SleepQualityBounds ==
    /\ pc \in {"stats", "done"} => InScoreRange(liveStats.sleepQualityScore)
    /\ pc = "done" => InScoreRange(report.sleepQualityScore)

\* C9: computeReport on an empty sequence returns the neutral record, with
\* duration the durationSeconds argument (avgHR 65 and hrVariability 2 are in
\* tenths, avgTemp 36.5 in hundredths); classifyEvents on an empty sequence
\* returns two empty lists.
C9_EmptyDefaults ==
    /\ (pc = "done" /\ data = <<>>) =>
           report = [sessionId |-> "session", userId |-> "user",
                     duration |-> durationSeconds,
                     clenchCount |-> 0, stressLikelihood |-> 0,
                     sleepQualityScore |-> Num(85), avgHR |-> 650,
                     hrVariability |-> 20, peakEMG |-> 0,
                     avgTemp |-> Num(3650), tempDrift |-> Num(0)]
    /\ (pc # "start" /\ data = <<>>) =>
           /\ classified.clenchEvents = <<>>
           /\ classified.arousalOnlyEvents = <<>>

\* The three functions were called on the empty sequence, computeReport with
\* a duration of 90 s.
C9_Witness ==
    pc = "done" /\ data = <<>> /\ durationSeconds = 90

SameStatistics ==
    /\ liveStats.clenchCount = report.clenchCount
    /\ liveStats.stressLikelihood = report.stressLikelihood
    /\ liveStats.sleepQualityScore = report.sleepQualityScore
    /\ liveStats.avgHR = report.avgHR
    /\ liveStats.peakEMG = report.peakEMG
    /\ liveStats.avgTemp = report.avgTemp

\* C10 as stated: for every sample sequence computeLiveStats(data) and
\* computeReport(sessionId, userId, data, duration) yield the same clenchCount,
\* stressLikelihood, sleepQualityScore, avgHR, peakEMG and avgTemp.
C10_SameComputation_AnySequence ==
    (pc = "done" /\ ~precomputed.given) => SameStatistics

\* C10: the same, for every non-empty sample sequence.
C10_SameComputation_NonEmpty ==
    (pc = "done" /\ ~precomputed.given /\ data # <<>>) => SameStatistics

\* Both were computed from a stream with a clench, a spread of heart rates
\* and a temperature drift.
C10_Witness ==
    /\ pc = "done" /\ ~precomputed.given
    /\ report.clenchCount >= 1
    /\ report.hrVariability > 0
    /\ ~report.tempDrift.nan /\ report.tempDrift.v > 0
    /\ ~report.sleepQualityScore.nan /\ report.sleepQualityScore.v < 100

\* C11: for a non-empty sample sequence computeLiveStats reports isClenching
\* exactly when the emg of the last sample is at or above the clench threshold
\* (250), whether or not that sample belongs to an episode of the minimum
\* duration; for the empty sequence it reports false.
C11_IsClenching ==
    pc \in {"stats", "done"} =>
        liveStats.isClenching =
            (Len(data) > 0 /\ data[Len(data)].emg >= 250)

\* The last sample is exactly at the threshold and no clench episode was
\* emitted: isClenching is reported without an episode.
C11_Witness ==
    /\ pc = "done"
    /\ Len(data) >= 2
    /\ data[Len(data)].emg = 250
    /\ classified.rawClenches = <<>>
    /\ liveStats.isClenching

StrictlyIncreasing ==
    \A i \in 1..(Len(data) - 1) : data[i].t < data[i + 1].t

\* C13 as stated: every sample whose timestamp lies in the closed interval
\* [startMs, endMs] of an emitted episode has its value (emg for a clench
\* episode, activation for an arousal episode) at or above the threshold.
C13_IntervalContent_Closed ==
    pc # "start" =>
        /\ \A k \in 1..Len(classified.rawClenches) : \A i \in 1..Len(data) :
               (/\ classified.rawClenches[k].startMs <= data[i].t
                /\ data[i].t <= classified.rawClenches[k].endMs) => ClenchAbove(i)
        /\ \A k \in 1..Len(classified.arousalPeaks) : \A i \in 1..Len(data) :
               (/\ classified.arousalPeaks[k].startMs <= data[i].t
                /\ data[i].t <= classified.arousalPeaks[k].endMs) => ArousalAbove(i)

\* C13: for a sample sequence with strictly increasing t, every sample whose
\* timestamp lies in [startMs, endMs) of an emitted episode has its value at
\* or above the threshold (the sample at endMs is the one that closed the
\* run, unless the stream ended inside the run).
C13_IntervalContent_HalfOpen ==
    (pc # "start" /\ StrictlyIncreasing) =>
        /\ \A k \in 1..Len(classified.rawClenches) : \A i \in 1..Len(data) :
               (/\ classified.rawClenches[k].startMs <= data[i].t
                /\ data[i].t < classified.rawClenches[k].endMs) => ClenchAbove(i)
        /\ \A k \in 1..Len(classified.arousalPeaks) : \A i \in 1..Len(data) :
               (/\ classified.arousalPeaks[k].startMs <= data[i].t
                /\ data[i].t < classified.arousalPeaks[k].endMs) => ArousalAbove(i)

\* A clench episode of two samples closed by a sample below the threshold,
\* and an arousal episode, in a stream with strictly increasing t.
C13_Witness ==
    /\ pc = "done" /\ StrictlyIncreasing
    /\ \E k \in 1..Len(classified.rawClenches) :
           /\ \E i \in 1..(Len(data) - 1) :
                  /\ data[i].t = classified.rawClenches[k].startMs
                  /\ data[i + 1].t < classified.rawClenches[k].endMs
           /\ \E j \in 1..Len(data) :
                  /\ data[j].t = classified.rawClenches[k].endMs
                  /\ ~ClenchAbove(j)
    /\ classified.arousalPeaks # <<>>

\* The run an episode was emitted for.
RunOf(ev, Above(_)) ==
    { r \in Runs(Above) : RunStart(r) = ev.startMs /\ RunClose(r) = ev.endMs }

\* peak is the activation of sample i / no less than it (exact comparison of
\* peak.num / peak.den with (hr - baseline) * 100 / baseline).
PeakIsActivationOf(peak, i) ==
    peak.num * classified.hrBaseline
        = (data[i].hr - classified.hrBaseline) * 100 * peak.den
PeakCoversActivationOf(peak, i) ==
    peak.num * classified.hrBaseline
        >= (data[i].hr - classified.hrBaseline) * 100 * peak.den

\* C14: the peak of each emitted episode is the maximum value over exactly
\* the samples of its above-threshold run (from the sample that opened the
\* run to the last sample at or above the threshold): it is the value of one
\* of them and no less than any of them, so nothing of an earlier run is in
\* it.
C14_PeakOfRun ==
    pc # "start" =>
        /\ \A k \in 1..Len(classified.rawClenches) :
               LET ev == classified.rawClenches[k]
               IN  /\ RunOf(ev, ClenchAbove) # {}
                   /\ \A r \in RunOf(ev, ClenchAbove) :
                          /\ \E i \in r[1]..r[2] : ev.peakEMG = data[i].emg
                          /\ \A i \in r[1]..r[2] : ev.peakEMG >= data[i].emg
        /\ \A k \in 1..Len(classified.arousalPeaks) :
               LET ap == classified.arousalPeaks[k]
               IN  /\ RunOf(ap, ArousalAbove) # {}
                   /\ \A r \in RunOf(ap, ArousalAbove) :
                          /\ \E i \in r[1]..r[2] :
                                 PeakIsActivationOf(ap.peakActivation, i)
                          /\ \A i \in r[1]..r[2] :
                                 PeakCoversActivationOf(ap.peakActivation, i)

\* A clench episode of peak 300 is followed by one of peak 250.
C14_Witness ==
    /\ pc = "done"
    /\ Len(classified.rawClenches) = 2
    /\ classified.rawClenches[1].peakEMG = 300
    /\ classified.rawClenches[2].peakEMG = 250

\* An arousal episode with the higher activation (57 over 50) is followed by
\* one with the lower (56 over 50).
C14_WitnessArousal ==
    /\ pc = "done"
    /\ Len(classified.arousalPeaks) = 2
    /\ classified.arousalPeaks[1].peakActivation = Rat(700, 50)
    /\ classified.arousalPeaks[2].peakActivation = Rat(600, 50)

CategoryRank(c) ==
    CASE c = "relaxed" -> 1 [] c = "talking" -> 2 [] c = "clenching" -> 3

C16_LevelAsDocumented ==
    pc = "transformed" =>
        transformed.level = IF probe.adc < 165 THEN 1
                            ELSE IF probe.adc <= 250 THEN 2
                            ELSE 3

\* C17: emgToIntensity is 0 for adc <= 0, 100 for adc >= 1024 and
\* adc / 1024 * 100 in between; it lies in [0, 100] and does not decrease
\* from adc - 1 to adc.
C17_Intensity ==
    pc = "transformed" =>
        LET r == transformed.intensity
        IN  /\ r.den > 0
            /\ probe.adc <= 0 => r.num = 0
            /\ probe.adc >= 1024 => r.num = 100 * r.den
            /\ (0 < probe.adc /\ probe.adc < 1024)
                   => r.num * 1024 = probe.adc * 100 * r.den
            /\ 0 <= r.num /\ r.num <= 100 * r.den
            /\ ~RatLess(r, emgToIntensity(probe.adc - 1))

\* emgToIntensity was applied to a count above the ceiling.
C17_Witness ==
    /\ pc = "transformed" /\ probe.adc = 1025
    /\ transformed.intensity.num = 100 * transformed.intensity.den

\* C18: hrToActivation is 0 when baseline <= 0, 0 when hr <= baseline and
\* (hr - baseline) / baseline * 100 otherwise; it is never negative.
C18_Activation ==
    pc = "transformed" =>
        LET r == transformed.activation
        IN  /\ r.den > 0
            /\ probe.baseline <= 0 => r.num = 0
            /\ probe.hr <= probe.baseline => r.num = 0
            /\ (probe.baseline > 0 /\ probe.hr > probe.baseline)
                   => r.num * probe.baseline
                          = (probe.hr - probe.baseline) * 100 * r.den
            /\ r.num >= 0

\* hrToActivation was applied to a heart rate below a positive baseline.
C18_Witness ==
    /\ pc = "transformed"
    /\ probe.baseline > 0 /\ probe.hr < probe.baseline
    /\ transformed.activation.num = 0

\* The runs of samples held at EMG = 300 that last 600 ms.
ScenarioARuns ==
    { r \in Runs(ClenchAbove) :
        /\ \A i \in r[1]..r[2] : data[i].emg = 300
        /\ RunMs(r) = 600 }

IsMedianHr(b) ==
    /\ \E i \in 1..Len(data) : data[i].hr = b
    /\ 2 * Cardinality({ i \in 1..Len(data) : data[i].hr <= b }) >= Len(data)
    /\ 2 * Cardinality({ i \in 1..Len(data) : data[i].hr >= b }) >= Len(data)

\* Sample i is more than / at least pct % above the baseline b.
OverBaseline(i, b, pct) ==
    b > 0 /\ (data[i].hr - b) * 100 > pct * b
AtLeastOverBaseline(i, b, pct) ==
    b > 0 /\ (data[i].hr - b) * 100 >= pct * b

\* Every clench episode is typed against the baseline b.
ClenchesTypedWith(b) ==
    \A k \in 1..Len(classified.clenchEvents) :
        classified.clenchEvents[k].type = "arousal-linked"
            <=> \E i \in 1..Len(data) :
                    /\ InPrecedingWindow(i, classified.clenchEvents[k].startMs)
                    /\ OverBaseline(i, b, ACTIVATION_PRECEDE)

\* The arousal episodes are the runs of at least AROUSAL_MIN_MS of samples
\* at least AROUSAL_DETECT_PCT % above the baseline b.
ArousalsDetectedWith(b) ==
    LET runs == Runs(LAMBDA i : AtLeastOverBaseline(i, b, AROUSAL_DETECT_PCT))
    IN  /\ \A k \in 1..Len(classified.arousalPeaks) :
               \E r \in runs : k \in EpisodesOf(classified.arousalPeaks, r)
        /\ \A r \in runs :
               RunMs(r) >= AROUSAL_MIN_MS
                   => EpisodesOf(classified.arousalPeaks, r) # {}

Emitted(events, startMs, endMs) ==
    \E k \in 1..Len(events) :
        events[k].startMs = startMs /\ events[k].endMs = endMs

\* C23: a run still open at the last sample is closed with endMs = the last
\* sample's timestamp and emitted iff that timestamp minus startMs is at least
\* MIN_CLENCH_MS; a run ended by a sample below the threshold has endMs = the
\* timestamp of that first sample below the threshold; no episode ends
\* anywhere else.
C23_EndOfStreamClosure ==
    pc # "start" =>
        /\ \A r \in Runs(ClenchAbove) :
               LET startMs == data[r[1]].t
                   lastMs == data[Len(data)].t
               IN  IF r[2] = Len(data)
                   THEN Emitted(classified.rawClenches, startMs, lastMs)
                            <=> lastMs - startMs >= MIN_CLENCH_MS
                   ELSE data[r[2] + 1].t - startMs >= MIN_CLENCH_MS
                            => Emitted(classified.rawClenches, startMs,
                                       data[r[2] + 1].t)
        /\ \A k \in 1..Len(classified.rawClenches) :
               \E r \in Runs(ClenchAbove) :
                   /\ classified.rawClenches[k].startMs = data[r[1]].t
                   /\ classified.rawClenches[k].endMs =
                          IF r[2] = Len(data) THEN data[Len(data)].t
                          ELSE data[r[2] + 1].t

\* One episode closed by a sample below the threshold, then one closed by the
\* end of the stream.
C23_Witness ==
    /\ pc = "done"
    /\ Len(classified.rawClenches) = 2
    /\ ClenchAbove(Len(data))
    /\ classified.rawClenches[2].endMs = data[Len(data)].t
    /\ classified.rawClenches[1].endMs < classified.rawClenches[2].startMs

HrZeroCount == Cardinality({ i \in 1..Len(data) : data[i].hr = 0 })

\* With a baseline that is not positive every activation is 0, every clench
\* episode is isolated with a finite peakIntensity and durationSec, and no
\* arousal episode is found.
ZeroBaselineOutcome ==
    /\ \A i \in 1..Len(data) :
           hrToActivation(data[i].hr, classified.hrBaseline).num = 0
    /\ \A k \in 1..Len(classified.clenchEvents) :
           /\ classified.clenchEvents[k].type = "isolated"
           /\ classified.clenchEvents[k].peakIntensity.den > 0
           /\ classified.clenchEvents[k].durationSec.den > 0
    /\ classified.arousalPeaks = <<>>
    /\ classified.arousalOnlyEvents = <<>>

\* C25 as stated: when the median heart rate is <= 0, for example when at
\* least half of the samples have hr = 0, every activation is 0, every clench
\* episode is typed isolated with finite peakIntensity and durationSec, and
\* arousalOnlyEvents is empty.
C25_ZeroBaseline_AtLeastHalf ==
    (/\ pc # "start" /\ Len(data) > 0
     /\ classified.hrBaseline <= 0 \/ 2 * HrZeroCount >= Len(data))
        => ZeroBaselineOutcome

\* C25: the same, the example being more than half of the samples with hr = 0.
C25_ZeroBaseline_MoreThanHalf ==
    (/\ pc # "start" /\ Len(data) > 0
     /\ classified.hrBaseline <= 0 \/ 2 * HrZeroCount > Len(data))
        => ZeroBaselineOutcome

\* A clench episode in a stream whose median heart rate is 0, after a sample
\* with a positive heart rate in its preceding window.
C25_Witness ==
    /\ pc = "done"
    /\ classified.hrBaseline = 0
    /\ \E k \in 1..Len(classified.clenchEvents) : \E i \in 1..Len(data) :
           /\ data[i].hr > 0
           /\ InPrecedingWindow(i, classified.clenchEvents[k].startMs)

AllTempsPresent == \A i \in 1..Len(data) : ~TempOf(data[i]).nan

\* A score that is 100 less a clench penalty of 2 per event capped at 40, less
\* a temperature penalty of 1 per 0.01 degree of drift capped at 20, less a
\* heart-rate penalty between 0 and 30; never below 10.
ScoreFloorLaw(score, clenchCount) ==
    LET tempDrift == Abs(TempOf(data[Len(data)]).v - TempOf(data[1]).v)
        base == 100 - Min(40, 2 * clenchCount) - Min(20, tempDrift)
    IN  /\ ~score.nan
        /\ score.v >= base - 30 /\ score.v <= base
        /\ score.v >= 10 /\ score.v <= 100

\* C27: for every non-empty sample sequence with finite hr and temp the three
\* penalties are non-negative and capped at 40, 30 and 20, so that
\* sleepQualityScore is an integer from 10 to 100 and the clamp at 0 never
\* decides it.
C27_ScoreFloor ==
    (pc = "done" /\ Len(data) > 0 /\ AllTempsPresent) =>
        /\ ScoreFloorLaw(liveStats.sleepQualityScore, liveStats.clenchCount)
        /\ ScoreFloorLaw(report.sleepQualityScore, report.clenchCount)

\* All three caps are reached at once: 20 or more events, a heart-rate
\* standard deviation of 60 or more, a drift of 0.2 degrees or more.
C27_Witness ==
    /\ pc = "done" /\ Len(data) = 2 /\ AllTempsPresent
    /\ precomputed.given /\ Len(precomputed.events) > 20
    /\ Abs(data[2].hr - data[1].hr) >= 120
    /\ Abs(TempOf(data[2]).v - TempOf(data[1]).v) > 20
    /\ liveStats.sleepQualityScore = Num(10)

\* C21: ingestion and analysis are independent callbacks; ingestion is never
\* blocked by analysis (a message can be taken whenever an EventSource is
\* open), and every analysis computes its clench events and its live stats
\* from the same buffer contents: both are what classifyEvents and
\* computeLiveStats give for the buffer the analysis was invoked on.
C21_ConsistentSnapshot ==
    /\ \A i \in sseOpen :
           now < MaxMessages * SampleGapMs
               => ENABLED (\E d \in Readings : onmessage(i, d))
    /\ \A k \in 1..Len(analyses) :
           LET a == analyses[k]
           IN  /\ a.clenchEvents = classifyEvents(a.buf).clenchEvents
               /\ a.stats = computeLiveStats(a.buf, NoPrecomputed)
               /\ a.stats.clenchCount = Len(a.clenchEvents)
               /\ a.stats.isClenching = (a.buf[Len(a.buf)].emg >= EMG_THRESHOLD)

\* Two analyses, the second on a longer buffer in which a clench episode has
\* appeared, with the EventSource still open.
C21_Witness ==
    /\ Len(analyses) >= 2
    /\ Len(analyses[2].buf) > Len(analyses[1].buf)
    /\ Len(analyses[2].clenchEvents) > Len(analyses[1].clenchEvents)
    /\ sseOpen # {}

IsPrefix(a, b) == Len(a) <= Len(b) /\ \A i \in 1..Len(a) : b[i] = a[i]

NonDecreasingT(buf) == \A i \in 1..(Len(buf) - 1) : buf[i].t <= buf[i + 1].t

\* C22: between connect and disconnect of a live session the buffer is
\* append-only (every step leaves the samples it held in place, in order) and
\* the timestamps of the buffered samples are non-decreasing in buffer order,
\* under every interleaving of the callbacks.
C22_BufferDiscipline ==
    [][(appStatus = "connected" /\ appStatus' = "connected")
           => (IsPrefix(rawBuf, rawBuf') /\ NonDecreasingT(rawBuf'))]_vars

\* C29: once handleDisconnect has run (appStatus is 'disconnected') no
\* EventSource opened and no interval started by handleConnect is still
\* active, in every interleaving, a second invocation of handleConnect before
\* the first session request returned included.
C29_CleanDisconnect ==
    appStatus = "disconnected" => (sseOpen = {} /\ timersLive = {})

\* Episode e of analysis a is the trailing, still open one: the buffer ends in
\* a run of samples at or above the threshold that starts at its startMs.
TrailingOpen(a, e) ==
    /\ e = Len(a.clenchEvents)
    /\ \E i \in 1..Len(a.buf) :
           /\ a.buf[i].t = a.clenchEvents[e].startMs
           /\ \A m \in i..Len(a.buf) : a.buf[m].emg >= EMG_THRESHOLD

\* Analysis later ran on the buffer of analysis earlier with samples appended.
LaterTick(earlier, later) ==
    /\ IsPrefix(earlier.buf, later.buf)
    /\ NonDecreasingT(later.buf)

\* C26: across successive analyses of one session clenchCount never
\* decreases, every episode closed by a below-threshold sample keeps its
\* startMs, endMs and peakEMG, and the trailing open episode changes only by
\* its endMs and its peak growing.
C26_MonotoneHistory ==
    \A j \in 1..Len(analyses) : \A k \in (j + 1)..Len(analyses) :
        LaterTick(analyses[j], analyses[k]) =>
            LET old == analyses[j].clenchEvents
                new == analyses[k].clenchEvents
            IN  /\ analyses[k].stats.clenchCount >= analyses[j].stats.clenchCount
                /\ Len(new) >= Len(old)
                /\ \A e \in 1..Len(old) :
                       /\ new[e].startMs = old[e].startMs
                       /\ IF TrailingOpen(analyses[j], e)
                          THEN /\ new[e].endMs >= old[e].endMs
                               /\ new[e].peakEMG >= old[e].peakEMG
                          ELSE /\ new[e].endMs = old[e].endMs
                               /\ new[e].peakEMG = old[e].peakEMG

\* An open episode reported by one analysis has grown, and another episode
\* has followed it, at a later analysis.
C26_Witness ==
    \E j \in 1..Len(analyses) : \E k \in (j + 1)..Len(analyses) :
        /\ LaterTick(analyses[j], analyses[k])
        /\ Len(analyses[j].clenchEvents) = 1
        /\ TrailingOpen(analyses[j], 1)
        /\ analyses[k].clenchEvents[1].endMs > analyses[j].clenchEvents[1].endMs
        /\ analyses[k].stats.clenchCount = 2

HrBaselineOf(buf) == median([i \in 1..Len(buf) |-> buf[i].hr])

\* C24: the baseline is recomputed from the whole buffer at every analysis,
\* and it alone changes the type of an episode already reported: between two
\* analyses of one session, the second on the buffer of the first with later
\* samples appended, an episode changes type only if the baseline differs, and
\* stressLikelihood changes without a new episode only if an episode changed
\* type.  (That both happen, in both directions, is what the witness
\* reaches.)
C24_Reclassification ==
    \A j \in 1..Len(analyses) : \A k \in (j + 1)..Len(analyses) :
        LaterTick(analyses[j], analyses[k]) =>
            LET old == analyses[j].clenchEvents
                new == analyses[k].clenchEvents
                Retyped == { e \in 1..Len(old) : new[e].type # old[e].type }
            IN  /\ Retyped # {}
                       => HrBaselineOf(analyses[j].buf) # HrBaselineOf(analyses[k].buf)
                /\ (/\ Len(new) = Len(old)
                    /\ analyses[k].stats.stressLikelihood
                           # analyses[j].stats.stressLikelihood)
                       => Retyped # {}

\* Three analyses of one growing buffer report the same single episode, first
\* arousal-linked, then isolated, then arousal-linked again: stressLikelihood
\* falls from 100 to 0 and rises back to 100 without a new episode.
C24_Witness ==
    /\ Len(analyses) = 3
    /\ LaterTick(analyses[1], analyses[2]) /\ LaterTick(analyses[2], analyses[3])
    /\ \A k \in 1..3 : Len(analyses[k].clenchEvents) = 1
    /\ analyses[2].clenchEvents[1].startMs = analyses[1].clenchEvents[1].startMs
    /\ analyses[3].clenchEvents[1].startMs = analyses[1].clenchEvents[1].startMs
    /\ analyses[1].clenchEvents[1].type = "arousal-linked"
    /\ analyses[2].clenchEvents[1].type = "isolated"
    /\ analyses[3].clenchEvents[1].type = "arousal-linked"
    /\ analyses[1].stats.stressLikelihood = 100
    /\ analyses[2].stats.stressLikelihood = 0
    /\ analyses[3].stats.stressLikelihood = 100

\* C28: in every dump built for the chat the 'Total Bruxating Events' figure
\* equals the sum of the 'Arousal-Linked' and 'Isolated' counts printed under
\* it and the number of entries of the event log, also when samples were
\* appended after the live stats passed in were computed.
C28_DumpConsistency ==
    dump # NotCalled =>
        /\ dump.totalEvents = dump.arousalLinked + dump.isolated
        /\ dump.totalEvents = Len(dump.eventLog)

\* Every assistant message with tool calls is followed by exactly one tool
\* message per call, in the order of the calls, and by no further one.
ToolCallsAnswered(msgs) ==
    \A p \in 1..Len(msgs) :
        (msgs[p].role = "assistant" /\ msgs[p].tool_calls > 0) =>
            /\ p + msgs[p].tool_calls <= Len(msgs)
            /\ \A k \in 1..msgs[p].tool_calls : msgs[p + k] = ToolMessage(k)
            /\ p + msgs[p].tool_calls < Len(msgs)
                   => msgs[p + msgs[p].tool_calls + 1].role # "tool"

\* C30: the first message of the history is always the system prompt; in
\* every reachable state in which a request is sent, also after sendMessage
\* has thrown, every assistant message with tool calls is followed by exactly
\* one tool message per call; and reset() leaves only the system prompt.
C30_HistoryWellFormed ==
    [][/\ messages'[1] = SystemPrompt
       /\ agentPc' = "requesting" => ToolCallsAnswered(messages')
       /\ reset => messages' = <<SystemPrompt>>]_vars

====
